---- MODULE Spec2Model ----
(***************************************************************************)
(* Aggregation pipeline of the news bot (src/bot.py, src/database.py,      *)
(* src/news_collector.py): pending topics, maturation, clustering of       *)
(* matured topics, publication, eviction, breaking-news rate limiting.     *)
(*                                                                         *)
(* Time is counted in minutes.  A URL is a sequence of one-character       *)
(* strings, so that normalize_url is computed and not assumed.  A title is *)
(* one of a few fixed headlines; title_tokens gives its token set.         *)
(***************************************************************************)
EXTENDS Integers, Sequences, FiniteSets, TLC

\* ------------------------------------------------------------------ bounds
MaxTime == 30          \* the clock stops advancing here
MaxCycles == 4         \* cycles of process_and_publish_news in one run
MaxBatch == 1          \* items one collection hands to a cycle
MaxLimit == 1          \* largest configured BREAKING_MAX_PER_HOUR
MaxTopics == 3         \* pending topics handed to merge_similar_news
MaxConfig == 8         \* largest BREAKING_NEWS_MIN_PRIORITY, in quarters
MaxDelta == 2          \* largest BREAKING_DYNAMIC_THRESHOLD_DELTA, in halves
MaxCount == 30         \* largest number of new items in a batch
MaxStrLen == 3         \* longest string handed to a normalization
MaxWords == 2          \* words of a title handed to _similarity

\* ------------------------------------------------------- program constants
PUBLISH_DELAY_MINUTES == 30
PENDING_SIMILARITY_PERCENT == 50      \* add_to_pending: similarity >= 0.5
CLUSTER_SIMILARITY_PERCENT == 40      \* merge_similar_news: similarity >= 0.4
BREAKING_WINDOW_MINUTES == 60         \* timedelta(hours=1)
MAX_POSTS_PER_PUBLISH_CYCLE == 2      \* config value, read at bot.py:575
BREAKING_NEWS_MIN_PRIORITY == 2       \* config value, read at bot.py:785
BREAKING_DYNAMIC_THRESHOLD_DELTA == 1 \* config value, read at bot.py:786
LARGE_BATCH == 25
SMALL_BATCH == 5
BREAKING_MINI_DIGEST_MAX_ITEMS == 1   \* config value, read at bot.py:810
CHECK_INTERVAL_MINUTES == 15          \* config value, read at bot.py:866
MinTokenLen == 4                      \* the {4,} of bot.py:81

\* ------------------------------------------------------------ value sets
\* Two feeds carry three headlines: each feed gives its articles one address.
Urls == { <<"A", "?", "x">>, <<"b", "/">> }
Titles == { "t1", "t2", "t3" }
Carries(url) == IF url = <<"b", "/">> THEN {"t1", "t2"} ELSE {"t1", "t3"}

\* ------------------------------------------------------------- sequences
RECURSIVE SeqToSet(_)
SeqToSet(s) == IF s = <<>> THEN {} ELSE {Head(s)} \cup SeqToSet(Tail(s))

Max2(a, b) == IF a >= b THEN a ELSE b

\* ------------------------------------------------- database.normalize_url
Lower(c) == IF c = "A" THEN "a" ELSE IF c = "B" THEN "b" ELSE IF c = "X" THEN "x" ELSE c

LowerSeq(s) == [i \in DOMAIN s |-> Lower(s[i])]

MinOf(S) == CHOOSE x \in S : \A y \in S : x <= y

MaxOf(S) == CHOOSE x \in S : \A y \in S : x >= y

\* the whitespace of the model: the blank and the tab
IsSpace(c) == c \in {" ", "\t"}

\* str.strip(): without the leading and trailing whitespace
Strip(s) ==
    LET kept == {i \in DOMAIN s : ~IsSpace(s[i])}
    IN  IF kept = {} THEN <<>> ELSE SubSeq(s, MinOf(kept), MaxOf(kept))

\* str.rstrip(c): without the trailing run of c
RStrip(s, c) ==
    LET kept == {i \in DOMAIN s : s[i] # c}
    IN  IF kept = {} THEN <<>> ELSE SubSeq(s, 1, MaxOf(kept))

\* str.split(c)[0]: everything before the first c
Before(s, c) ==
    LET hits == {i \in DOMAIN s : s[i] = c}
    IN  IF hits = {} THEN s ELSE SubSeq(s, 1, MinOf(hits) - 1)

normalize_url(url) ==
    IF url = <<>> THEN <<>>
    ELSE LET lowered == Strip(LowerSeq(url))
             nofrag  == Before(lowered, "#")
             noquery == Before(nofrag, "?")
         IN  RStrip(noquery, "/")

\* ----------------------------------------------- database.normalize_title
\* the characters of the model that are neither \w nor \s
IsPunct(c) == c \in {"!", "#", "?", "/"}

\* re.sub(r'[^\w\s]', '', text)
RemovePunct(s) == SelectSeq(s, LAMBDA c : IsSpace(c) \/ ~IsPunct(c))

\* re.sub(r'\s+', ' ', text): a run of whitespace becomes one blank
Collapse(s) ==
    LET marked == [i \in DOMAIN s |->
                      IF ~IsSpace(s[i]) THEN s[i]
                      ELSE IF i > 1 /\ IsSpace(s[i - 1]) THEN "drop" ELSE " "]
    IN  SelectSeq(marked, LAMBDA c : c # "drop")

\* a normalization that leaves out the final strip()
normalize_title_unstripped(title) ==
    Collapse(RemovePunct(Strip(LowerSeq(title))))

normalize_title(title) ==
    Strip(Collapse(RemovePunct(Strip(LowerSeq(title)))))

\* --------------------------------------------------- bot._title_tokens
\* The token set of each headline of the model (words of length >= 4 that
\* are not stop words).
title_tokens(title) ==
    CASE title = "t1" -> {1, 2, 3, 4, 5}
      [] title = "t2" -> {1, 2}
      [] title = "t3" -> {3, 4, 5, 6, 7}
      [] title = "t4" -> {3, 4}
      [] OTHER -> {}

\* bot._title_tokens computed on a text: the runs of at least MinTokenLen
\* letters of the lowercased text that are not stop words
IsTokenChar(c) == ~IsSpace(c) /\ ~IsPunct(c)

StopWords == { <<"t", "h", "a", "t">> }

\* re.findall of [a-z0-9]{4,} with the Cyrillic letters: the maximal runs of
\* letters and digits that are at least MinTokenLen long
Runs(text) ==
    LET starts == {i \in DOMAIN text :
                      IsTokenChar(text[i]) /\ (i = 1 \/ ~IsTokenChar(text[i - 1]))}
        end(i) == MinOf({j \in i..Len(text) :
                            j = Len(text) \/ ~IsTokenChar(text[j + 1])})
    IN  {SubSeq(text, i, end(i)) : i \in {k \in starts : end(k) - k + 1 >= MinTokenLen}}

text_tokens(text) == Runs(LowerSeq(text)) \ StopWords

\* a ratio taken over the tokens of the left title only
overlap_of_left(left_tokens, right_tokens) ==
    IF left_tokens = {} \/ right_tokens = {} THEN 0
    ELSE (100 * Cardinality(left_tokens \cap right_tokens)) \div Cardinality(left_tokens)

\* lines 375-378 of bot._similarity, as a percentage rounded down:
\* |L & R| / max(|L|, |R|)
token_similarity(left_tokens, right_tokens) ==
    IF left_tokens = {} \/ right_tokens = {} THEN 0
    ELSE (100 * Cardinality(left_tokens \cap right_tokens))
            \div Max2(Cardinality(left_tokens), Cardinality(right_tokens))

\* bot._similarity of two headlines of the model
similarity(left, right) ==
    token_similarity(title_tokens(left.title), title_tokens(right.title))

\* ------------------------------------------------------------ news items
\* An item as the collector hands it over.  priority_score is the score
\* _priority_breakdown computes for the item (line 513); it is attached
\* together with is_breaking by Scored below.
\* The publication time a source asserts for a headline, and the score of it.
PublishedAt(title) == IF title = "t1" THEN 0 ELSE 1

Score(title) == IF title = "t2" THEN 1 ELSE 2

Article(t, u) ==
    [title |-> t, url |-> u, published_at |-> PublishedAt(t), priority_score |-> Score(t)]

Items == UNION { {Article(t, u) : t \in Carries(u)} : u \in Urls }

\* a threshold that falls, instead of rising, when the batch is large
adaptive_threshold_falling(base, delta, unit, recent_count) ==
    LET d == Max2(delta, 0)
    IN  IF recent_count >= LARGE_BATCH THEN base - d
        ELSE IF recent_count <= SMALL_BATCH THEN Max2(unit, base - (d \div 2))
        ELSE base

\* bot._adaptive_breaking_threshold for any configuration: base and delta
\* are counted in 1/unit, delta is even so that delta * 0.5 is exact, and
\* unit is the floor 1.0
adaptive_threshold(base, delta, unit, recent_count) ==
    LET d == Max2(delta, 0)
    IN  IF recent_count >= LARGE_BATCH THEN base + d
        ELSE IF recent_count <= SMALL_BATCH THEN Max2(unit, base - (d \div 2))
        ELSE base

\* bot._adaptive_breaking_threshold of this configuration, in halves
adaptive_breaking_threshold(recent_count) ==
    adaptive_threshold(2 * BREAKING_NEWS_MIN_PRIORITY,
                       2 * BREAKING_DYNAMIC_THRESHOLD_DELTA, 2, recent_count)

\* bot.is_breaking_news with no high-importance keyword in the text
is_breaking_news(news, threshold) == 2 * news.priority_score >= threshold

\* lines 513-515: the item with its is_breaking flag
Scored(news, threshold) ==
    [title |-> news.title, url |-> news.url, published_at |-> news.published_at,
     priority_score |-> news.priority_score,
     is_breaking |-> is_breaking_news(news, threshold)]

\* dict.get(key, default) on a record
Get(rec, key, default) == IF key \in DOMAIN rec THEN rec[key] ELSE default

\* bot.is_breaking_or_urgent: bool(news.get('is_breaking'))
is_breaking_or_urgent(news) == Get(news, "is_breaking", FALSE)

\* ------------------------------------------- database.is_news_published
\* A stored row is [title, url, category].  An incoming item is a duplicate
\* when a row has the same hash (title and url), the same normalized URL or
\* the same title; every published_at of the model lies inside the 7-day
\* and 30-day windows.
is_news_published(db, news) ==
    \E row \in db :
        \/ row.title = news.title /\ row.url = news.url
        \/ normalize_url(news.url) # <<>>
             /\ normalize_url(row.url) = normalize_url(news.url)
        \/ row.title = news.title

\* news_collector.filter_new_news
filter_new_news(all_news, db) ==
    SelectSeq(all_news, LAMBDA news : ~is_news_published(db, news))

\* database.save_news: the insert is refused when the hash is already stored
save_news(db, title, url, category) ==
    IF \E row \in db : row.title = title /\ row.url = url THEN db
    ELSE db \cup {[title |-> title, url |-> url, category |-> category]}

\* ------------------------------------------------ lines 476-529: admission
\* Items that survive the in-batch duplicate check and, in a breaking-only
\* cycle, are flagged breaking.
RECURSIVE Admit(_, _, _, _)
Admit(new_news, filtered_news, threshold, breaking_only) ==
    IF new_news = <<>> THEN filtered_news
    ELSE LET news == Scored(Head(new_news), threshold)
             dup  == \E i \in DOMAIN filtered_news :
                        \/ filtered_news[i].title = news.title
                        \/ normalize_url(filtered_news[i].url) = normalize_url(news.url)
         IN  IF dup \/ (breaking_only /\ ~news.is_breaking)
             THEN Admit(Tail(new_news), filtered_news, threshold, breaking_only)
             ELSE Admit(Tail(new_news), Append(filtered_news, news), threshold, breaking_only)

\* ------------------------------------------------- bot.group_news_by_url
\* An ordered dict is a sequence of [key, news] entries.
HasKey(dict, key) == \E i \in DOMAIN dict : dict[i].key = key

ValueOf(dict, key) == dict[CHOOSE i \in DOMAIN dict : dict[i].key = key].news

RECURSIVE group_news_by_url(_, _, _)
group_news_by_url(news_list, grouped, now_) ==
    IF news_list = <<>> THEN grouped
    ELSE LET news == Head(news_list)
             normalized_url == normalize_url(news.url)
             fresh == [title |-> news.title, url |-> news.url,
                       published_at |-> news.published_at,
                       priority_score |-> news.priority_score,
                       first_seen_at |-> now_,
                       combined_items |-> <<news>>]
             upd(g) == [g EXCEPT
                          !.published_at = Max2(@, news.published_at),
                          !.priority_score = Max2(@, news.priority_score),
                          !.combined_items = Append(@, news)]
         IN  IF ~HasKey(grouped, normalized_url)
             THEN group_news_by_url(Tail(news_list),
                      Append(grouped, [key |-> normalized_url, news |-> fresh]), now_)
             ELSE group_news_by_url(Tail(news_list),
                      [i \in DOMAIN grouped |->
                          IF grouped[i].key = normalized_url
                          THEN [grouped[i] EXCEPT !.news = upd(@)] ELSE grouped[i]],
                      now_)

\* ---------------------------------------------- bot._merge_into_existing
\* a merge that restarts the maturation clock of the topic
merge_resets_first_seen(target, incoming) ==
    [target EXCEPT
        !.priority_score = Max2(@, incoming.priority_score),
        !.first_seen_at = incoming.first_seen_at,
        !.combined_items = @ \o incoming.combined_items]

merge_into_existing(target, incoming) ==
    [target EXCEPT
        !.priority_score = Max2(@, incoming.priority_score),
        !.combined_items = @ \o incoming.combined_items]

\* --------------------------------------------------- bot.add_to_pending
\* no pending topic is ever found similar
NoSimilarTarget(pending, news) == 0

\* Index of the first pending topic similar to news, 0 when there is none
SimilarTarget(pending, news) ==
    LET hits == {i \in DOMAIN pending :
                    similarity(news, pending[i].news) >= PENDING_SIMILARITY_PERCENT}
    IN  IF hits = {} THEN 0 ELSE CHOOSE i \in hits : \A j \in hits : i <= j

MergeAt(pending, i, news) ==
    [pending EXCEPT ![i].news = merge_into_existing(@, news)]

RECURSIVE add_to_pending(_, _)
add_to_pending(pending, grouped_news) ==
    IF grouped_news = <<>> THEN pending
    ELSE LET normalized_url == Head(grouped_news).key
             news == Head(grouped_news).news
             rest == Tail(grouped_news)
         IN  IF ~HasKey(pending, normalized_url)
             THEN LET similar_target == SimilarTarget(pending, news)
                  IN  IF similar_target # 0
                      THEN add_to_pending(MergeAt(pending, similar_target, news), rest)
                      ELSE add_to_pending(
                               Append(pending, [key |-> normalized_url, news |-> news]), rest)
             ELSE add_to_pending(
                      MergeAt(pending,
                              CHOOSE i \in DOMAIN pending : pending[i].key = normalized_url,
                              news),
                      rest)

\* -------------------------------------------- bot._is_ready_for_publish
\* a readiness test that measures the delay from the source's publication time
is_ready_by_published_at(news, now_, breaking_mode) ==
    IF breaking_mode /\ is_breaking_or_urgent(news) THEN TRUE
    ELSE now_ - news.published_at >= PUBLISH_DELAY_MINUTES

is_ready_for_publish(news, now_, breaking_mode) ==
    IF breaking_mode /\ is_breaking_or_urgent(news) THEN TRUE
    ELSE now_ - Get(news, "first_seen_at", now_) >= PUBLISH_DELAY_MINUTES

\* ------------------------------ list.sort(key=(priority, published_at), reverse=True)
\* a goes before b
Before2(a, b) ==
    \/ a.priority_score > b.priority_score
    \/ a.priority_score = b.priority_score /\ a.published_at > b.published_at

\* stable insertion: x goes after every element that is not smaller
RECURSIVE InsertDesc(_, _)
InsertDesc(sorted, x) ==
    IF sorted = <<>> THEN <<x>>
    ELSE IF Before2(x, Head(sorted)) THEN <<x>> \o sorted
    ELSE <<Head(sorted)>> \o InsertDesc(Tail(sorted), x)

RECURSIVE SortDesc(_)
SortDesc(s) ==
    IF s = <<>> THEN <<>>
    ELSE InsertDesc(SortDesc(SubSeq(s, 1, Len(s) - 1)), s[Len(s)])

\* ------------------------------------------------ bot.merge_similar_news
\* lines 383-391: first-fit assignment of each item to a cluster
FirstFit(clusters, item) ==
    LET fits == {c \in DOMAIN clusters :
                    \E e \in DOMAIN clusters[c] :
                        similarity(item, clusters[c][e]) >= CLUSTER_SIMILARITY_PERCENT}
    IN  IF fits = {} THEN 0 ELSE CHOOSE c \in fits : \A d \in fits : c <= d

RECURSIVE Clusters(_, _)
Clusters(matured_news, clusters) ==
    IF matured_news = <<>> THEN clusters
    ELSE LET item == Head(matured_news)
             c == FirstFit(clusters, item)
         IN  IF c # 0
             THEN Clusters(Tail(matured_news), [clusters EXCEPT ![c] = Append(@, item)])
             ELSE Clusters(Tail(matured_news), Append(clusters, <<item>>))

\* a merged post that keeps the items of its first topic only
ConcatItemsOfFirst(cluster) ==
    Get(Head(cluster), "combined_items", <<Head(cluster)>>)

RECURSIVE ConcatItems(_)
ConcatItems(cluster) ==
    IF cluster = <<>> THEN <<>>
    ELSE Get(Head(cluster), "combined_items", <<Head(cluster)>>) \o ConcatItems(Tail(cluster))

\* the value of the first topic instead of the maximum
FirstOver(cluster, field) == cluster[1][field]

RECURSIVE MaxOver(_, _)
MaxOver(cluster, field) ==
    IF Len(cluster) = 1 THEN cluster[1][field]
    ELSE Max2(cluster[1][field], MaxOver(Tail(cluster), field))

\* lines 412, 420, 432: list(dict.fromkeys(all_urls))[1:]
RECURSIVE UniqueUrls(_, _)
UniqueUrls(cluster, seen) ==
    IF cluster = <<>> THEN <<>>
    ELSE IF \E i \in DOMAIN seen : seen[i] = Head(cluster).url
    THEN UniqueUrls(Tail(cluster), seen)
    ELSE <<Head(cluster).url>> \o UniqueUrls(Tail(cluster), Append(seen, Head(cluster).url))

\* lines 393-443: one post for each cluster
MergedPost(cluster) ==
    IF Len(cluster) = 1 THEN cluster[1]
    ELSE [title |-> cluster[1].title,
          url |-> cluster[1].url,
          alternate_urls |-> UniqueUrls(Tail(cluster), <<cluster[1].url>>),
          published_at |-> MaxOver(cluster, "published_at"),
          priority_score |-> MaxOver(cluster, "priority_score"),
          is_merged_topic |-> TRUE,
          topic_size |-> Len(cluster),
          combined_items |-> ConcatItems(cluster)]

merge_similar_news(matured_news) ==
    LET clusters == Clusters(matured_news, <<>>)
    IN  [c \in DOMAIN clusters |-> MergedPost(clusters[c])]

\* ------------------------------------------------------------------ state
VARIABLES
    now,                      \* the wall clock, in minutes
    pc,                       \* position of run_continuously in its iteration
    cycles,                   \* cycles run so far
    max_per_hour,             \* config.BREAKING_MAX_PER_HOUR of this run
    pending_news,             \* NewsBot.pending_news, in insertion order
    breaking_publish_times,   \* NewsBot.breaking_publish_times
    pending_breaking_digest,  \* NewsBot.pending_breaking_digest
    database,                 \* rows of the news table
    channel,                  \* history: what reached or was kept from the channel
    last                      \* history: the cycle that has just finished

vars == <<now, pc, cycles, max_per_hour, pending_news, breaking_publish_times,
          pending_breaking_digest, database, channel, last>>

NoCycle == [ran |-> FALSE]

Init ==
    /\ now = 0
    /\ pc = "loop"
    /\ cycles = 0
    /\ max_per_hour \in 0..MaxLimit
    /\ pending_news = <<>>
    /\ breaking_publish_times = <<>>
    /\ pending_breaking_digest = <<>>
    /\ database = {}
    /\ channel = <<>>
    /\ last = NoCycle

\* ------------------------------------------- bot._breaking_limit_reached
RECURSIVE Pruned(_, _)
Pruned(times, cutoff) ==
    IF times # <<>> /\ Head(times) < cutoff THEN Pruned(Tail(times), cutoff) ELSE times

breaking_limit_reached(times, now_msk, limit) ==
    Len(Pruned(times, now_msk - BREAKING_WINDOW_MINUTES)) >= limit

\* bot._record_breaking_publish
record_breaking_publish(times, now_msk) == Append(times, now_msk)

\* ------------------------------------ lines 587-600: persist a sent post
RECURSIVE SaveItems(_, _)
SaveItems(db, items) ==
    IF items = <<>> THEN db
    ELSE SaveItems(save_news(db, Head(items).title, Head(items).url, "news"), Tail(items))

ItemUrls(news) ==
    {normalize_url(item.url) : item \in SeqToSet(Get(news, "combined_items", <<news>>))}

\* The keys of the pending topics a post was made of
TopicKeys(news) ==
    {normalize_url(news.url)}
        \cup {normalize_url(u) : u \in SeqToSet(Get(news, "alternate_urls", <<>>))}

\* What the history keeps of a post of the publish queue
Handled(news, result) ==
    [key |-> normalize_url(news.url), topics |-> TopicKeys(news), urls |-> ItemUrls(news),
     items |-> {<<item.title, item.url>> :
                   item \in SeqToSet(Get(news, "combined_items", <<news>>))},
     rank |-> <<news.priority_score, news.published_at>>,
     result |-> result]

Event(kind, news, breaking_only, now_) ==
    [kind |-> kind, at |-> now_, breaking_only |-> breaking_only,
     key |-> normalize_url(news.url)]

\* ------------------------------------------- lines 571-603: publish loop
\* outcome[i] is what the environment does to post i if the loop reaches it:
\* "ok", "fail" (publish_news returns False) or "raise" (the lookup of
\* related news at line 580 raises, which ends the cycle at line 609).
Outcomes == {"ok", "fail", "raise"}

LoopStart(queue, times, digest, db, log) ==
    [published_count |-> 0, published_urls |-> {}, times |-> times,
     digest |-> digest, db |-> db, log |-> log, aborted |-> FALSE,
     result |-> [i \in DOMAIN queue |-> "not_reached"]]

RECURSIVE PublishLoop(_, _, _, _, _, _, _)
PublishLoop(queue, i, outcome, st, breaking_only, now_, limit) ==
    IF i > Len(queue) \/ st.aborted THEN st
    ELSE IF st.published_count >= MAX_POSTS_PER_PUBLISH_CYCLE THEN st
    ELSE LET news == queue[i]
             next(s) == PublishLoop(queue, i + 1, outcome, s, breaking_only, now_, limit)
             pruned == IF breaking_only
                       THEN Pruned(st.times, now_ - BREAKING_WINDOW_MINUTES)
                       ELSE st.times
         IN  IF breaking_only /\ breaking_limit_reached(st.times, now_, limit)
             THEN next([st EXCEPT !.times = pruned,
                                  !.digest = Append(@, news),
                                  !.log = Append(@, Event("diverted", news, breaking_only, now_)),
                                  !.result[i] = "diverted"])
             ELSE IF outcome[i] = "raise"
             THEN [st EXCEPT !.times = pruned, !.aborted = TRUE, !.result[i] = "raised"]
             ELSE IF outcome[i] = "fail"
             THEN next([st EXCEPT !.times = pruned, !.result[i] = "failed"])
             ELSE next([st EXCEPT
                     !.times = IF breaking_only /\ Get(news, "is_breaking", FALSE)
                               THEN record_breaking_publish(pruned, now_) ELSE pruned,
                     !.db = SaveItems(@, Get(news, "combined_items", <<news>>)),
                     !.published_urls = @ \cup ItemUrls(news),
                     !.published_count = @ + 1,
                     !.log = Append(@, Event("post", news, breaking_only, now_)),
                     !.result[i] = "sent"])

\* --------------------------------------- bot.process_and_publish_news
Batches == UNION {[1..n -> Items] : n \in 0..MaxBatch}

\* collect_all_news sorts what it returns by published_at, newest first
SortedByDate(all_news) ==
    \A i, j \in DOMAIN all_news : i < j => all_news[i].published_at >= all_news[j].published_at

Values(dict) == [i \in DOMAIN dict |-> dict[i].news]

\* lines 547-551: the pending topics that are ready, in the order of the map
MaturedByUrl(pending, now_, breaking_only) ==
    SelectSeq(pending, LAMBDA e : is_ready_for_publish(e.news, now_, breaking_only))

\* lines 560-569: sort, merge similar topics, sort again
PublishQueue(matured_by_url) ==
    SortDesc(merge_similar_news(SortDesc(Values(matured_by_url))))

process_and_publish_news(breaking_only, all_news, outcomes) ==
    LET new_news  == filter_new_news(all_news, database)
        threshold == adaptive_breaking_threshold(Len(new_news))
        filtered_news == Admit(new_news, <<>>, threshold, breaking_only)
        grouped_news  == group_news_by_url(filtered_news, <<>>, now)
        pending == add_to_pending(pending_news, grouped_news)
        matured_by_url == MaturedByUrl(pending, now, breaking_only)
        publish_queue == PublishQueue(matured_by_url)
        topics == [i \in DOMAIN pending |->
                      [key |-> pending[i].key,
                       first_seen_at |-> pending[i].news.first_seen_at,
                       is_breaking |-> pending[i].news.combined_items[1].is_breaking,
                       items |-> Len(pending[i].news.combined_items),
                       matured |-> HasKey(matured_by_url, pending[i].key)]]
    IN  IF matured_by_url = <<>>
        THEN /\ pending_news' = pending
             /\ last' = [ran |-> TRUE, breaking_only |-> breaking_only, at |-> now,
                         topics |-> topics, queue |-> <<>>, saved |-> {},
                         completed |-> TRUE]
             /\ UNCHANGED <<breaking_publish_times, pending_breaking_digest,
                            database, channel>>
        ELSE \E outcome \in [DOMAIN publish_queue -> outcomes] :
             LET st == PublishLoop(publish_queue, 1, outcome,
                           LoopStart(publish_queue, breaking_publish_times,
                                     pending_breaking_digest, database, channel),
                           breaking_only, now, max_per_hour)
             IN  /\ pending_news' =
                        IF st.aborted THEN pending
                        ELSE SelectSeq(pending, LAMBDA e : e.key \notin st.published_urls)
                 /\ breaking_publish_times' = st.times
                 /\ pending_breaking_digest' = st.digest
                 /\ database' = st.db
                 /\ channel' = st.log
                 /\ last' = [ran |-> TRUE, breaking_only |-> breaking_only, at |-> now,
                             topics |-> topics,
                             queue |-> [i \in DOMAIN publish_queue |->
                                          Handled(publish_queue[i], st.result[i])],
                             saved |-> st.db \ database,
                             completed |-> ~st.aborted]

\* run_continuously, line 863
BreakingCycle ==
    /\ pc = "loop"
    /\ cycles < MaxCycles
    /\ \E all_news \in Batches :
          /\ SortedByDate(all_news)
          /\ process_and_publish_news(TRUE, all_news, Outcomes)
    /\ pc' = "flush"
    /\ cycles' = cycles + 1
    /\ UNCHANGED <<now, max_per_hour>>

\* process_and_publish_news() called with its default breaking_only=False
NonBreakingCycle ==
    /\ pc = "loop"
    /\ cycles < MaxCycles
    /\ \E all_news \in Batches :
          /\ SortedByDate(all_news)
          /\ process_and_publish_news(FALSE, all_news, Outcomes)
    /\ cycles' = cycles + 1
    /\ UNCHANGED <<now, pc, max_per_hour>>

\* ------------------------------- bot._publish_pending_breaking_digest
\* the mini-digest is sent and none of its items is saved
SaveNoDigest(db, items) == db

RECURSIVE SaveDigest(_, _)
SaveDigest(db, items) ==
    IF items = <<>> THEN db
    ELSE SaveDigest(save_news(db, Head(items).title, Head(items).url, "breaking_digest"),
                    Tail(items))

RECURSIVE DigestEvents(_, _, _)
DigestEvents(log, items, now_) ==
    IF items = <<>> THEN log
    ELSE DigestEvents(Append(log, Event("mini_digest", Head(items), TRUE, now_)),
                      Tail(items), now_)

Take(s, n) == SubSeq(s, 1, IF Len(s) < n THEN Len(s) ELSE n)

\* run_continuously, line 864; sent = FALSE: _send_message raises
PublishPendingBreakingDigest ==
    /\ pc = "flush"
    /\ pc' = "loop"
    /\ last' = NoCycle
    /\ IF pending_breaking_digest = <<>>
       THEN UNCHANGED <<pending_breaking_digest, database, channel>>
       ELSE \E sent \in BOOLEAN :
            LET items == Take(SortDesc(pending_breaking_digest), BREAKING_MINI_DIGEST_MAX_ITEMS)
            IN  IF sent
                THEN /\ channel' = DigestEvents(channel, items, now)
                     /\ database' = SaveDigest(database, items)
                     /\ pending_breaking_digest' = <<>>
                ELSE UNCHANGED <<pending_breaking_digest, database, channel>>
    /\ UNCHANGED <<now, cycles, max_per_hour, pending_news, breaking_publish_times>>

\* run_continuously, lines 866-867: the sleep between two iterations
Tick ==
    /\ pc = "loop"
    /\ now + CHECK_INTERVAL_MINUTES <= MaxTime
    /\ now' = now + CHECK_INTERVAL_MINUTES
    /\ last' = NoCycle
    /\ UNCHANGED <<pc, cycles, max_per_hour, pending_news, breaking_publish_times,
                   pending_breaking_digest, database, channel>>

Next == BreakingCycle \/ NonBreakingCycle \/ PublishPendingBreakingDigest \/ Tick

Spec == Init /\ [][Next]_vars

\* ===================================================================
\* merge_similar_news on its own: the pending map is drawn from the maps
\* add_to_pending can build (distinct keys, topics pairwise less similar
\* than the pending threshold), the clock stands at the publish delay.
\* ===================================================================
MergeTitles == { "t0", "t1", "t2", "t3", "t4" }

\* the URL of the topic at position i of the map; no two normalize alike
MergeUrl(i) ==
    IF i = 1 THEN <<"A", "?", "x">> ELSE [k \in 1..i |-> IF k = i THEN "/" ELSE "b"]

\* A topic as group_news_by_url builds it at time seen from one item, or
\* from two items that share the URL
TopicEntry(title, url, seen, extra) ==
    LET threshold == adaptive_breaking_threshold(1)
        first  == Scored(Article(title, url), threshold)
        second == Scored(Article("t0", url), threshold)
    IN  group_news_by_url(IF extra THEN <<first, second>> ELSE <<first>>, <<>>, seen)[1]

TopicChoices == [title : MergeTitles, seen : {0, CHECK_INTERVAL_MINUTES}, extra : BOOLEAN]

PendingOf(choice) ==
    [i \in DOMAIN choice |->
        TopicEntry(choice[i].title, MergeUrl(i), choice[i].seen, choice[i].extra)]

\* add_to_pending starts a topic only when no pending topic is similar to it
PendingMaps ==
    {PendingOf(choice) :
        choice \in {c \in UNION {[1..n -> TopicChoices] : n \in 0..MaxTopics} :
                       \A i, j \in DOMAIN c :
                           i # j => similarity(c[i], c[j]) < PENDING_SIMILARITY_PERCENT}}

InitMerge ==
    /\ now = PUBLISH_DELAY_MINUTES
    /\ pc = "loop"
    /\ cycles = 0
    /\ max_per_hour = 0
    /\ pending_news \in PendingMaps
    /\ breaking_publish_times = <<>>
    /\ pending_breaking_digest = <<>>
    /\ database = {}
    /\ channel = <<>>
    /\ last = NoCycle

\* merge_similar_news applied to the matured topics in the order of the map
MergeSimilarNews ==
    /\ last = NoCycle
    /\ LET matured_news == Values(MaturedByUrl(pending_news, now, FALSE))
       IN  last' = [kind |-> "merge", input |-> matured_news,
                    posts |-> merge_similar_news(matured_news)]
    /\ UNCHANGED <<now, pc, cycles, max_per_hour, pending_news, breaking_publish_times,
                   pending_breaking_digest, database, channel>>

\* lines 547-569 of process_and_publish_news: select, sort, merge, sort
SelectAndMerge ==
    /\ last = NoCycle
    /\ \E breaking_only \in BOOLEAN :
          LET matured_by_url == MaturedByUrl(pending_news, now, breaking_only)
          IN  last' = [kind |-> "queue", input |-> SortDesc(Values(matured_by_url)),
                       posts |-> PublishQueue(matured_by_url)]
    /\ UNCHANGED <<now, pc, cycles, max_per_hour, pending_news, breaking_publish_times,
                   pending_breaking_digest, database, channel>>

NextMerge == MergeSimilarNews \/ SelectAndMerge

SpecMerge == InitMerge /\ [][NextMerge]_vars

\* ===================================================================
\* _adaptive_breaking_threshold on its own, for every configuration up to
\* MaxConfig quarters and every two batch sizes up to MaxCount
\* ===================================================================
Quarter == 4

ThresholdInputs ==
    [base : 0..MaxConfig, delta : {2 * k : k \in -1..MaxDelta},
     low_count : 0..MaxCount, high_count : 0..MaxCount]

\* everything but last, as NewsBot.__init__ leaves it
Constructed ==
    /\ now = 0
    /\ pc = "loop"
    /\ cycles = 0
    /\ max_per_hour = 0
    /\ pending_news = <<>>
    /\ breaking_publish_times = <<>>
    /\ pending_breaking_digest = <<>>
    /\ database = {}
    /\ channel = <<>>

InitThreshold ==
    /\ Constructed
    /\ last \in {[input |-> i, done |-> FALSE] :
                    i \in {x \in ThresholdInputs : x.low_count <= x.high_count}}

AdaptiveBreakingThreshold ==
    /\ ~last.done
    /\ last' = [input |-> last.input, done |-> TRUE,
                low  |-> adaptive_threshold(last.input.base, last.input.delta,
                                            Quarter, last.input.low_count),
                high |-> adaptive_threshold(last.input.base, last.input.delta,
                                            Quarter, last.input.high_count)]
    /\ UNCHANGED <<now, pc, cycles, max_per_hour, pending_news, breaking_publish_times,
                   pending_breaking_digest, database, channel>>

NextThreshold == AdaptiveBreakingThreshold

SpecThreshold == InitThreshold /\ [][NextThreshold]_vars

\* ===================================================================
\* normalize_url and normalize_title on their own, for every string of
\* up to MaxStrLen characters
\* ===================================================================
Chars == {"A", "b", " ", "\t", "#", "?", "/", "!"}

Strings == UNION {[1..n -> Chars] : n \in 0..MaxStrLen}

InitNormalize ==
    /\ Constructed
    /\ last \in {[input |-> str, done |-> FALSE] : str \in Strings}

NormalizeUrl ==
    /\ ~last.done
    /\ last' = [input |-> last.input, done |-> TRUE, kind |-> "url",
                once  |-> normalize_url(last.input),
                twice |-> normalize_url(normalize_url(last.input))]
    /\ UNCHANGED <<now, pc, cycles, max_per_hour, pending_news, breaking_publish_times,
                   pending_breaking_digest, database, channel>>

NormalizeTitle ==
    /\ ~last.done
    /\ last' = [input |-> last.input, done |-> TRUE, kind |-> "title",
                once  |-> normalize_title(last.input),
                twice |-> normalize_title(normalize_title(last.input))]
    /\ UNCHANGED <<now, pc, cycles, max_per_hour, pending_news, breaking_publish_times,
                   pending_breaking_digest, database, channel>>

NextNormalize == NormalizeUrl \/ NormalizeTitle

SpecNormalize == InitNormalize /\ [][NextNormalize]_vars

\* ===================================================================
\* _similarity on its own, for every two titles of up to MaxWords words
\* ===================================================================
Words ==
    { <<"A", "b", "b", "a">>, <<"a", "b", "b", "a">>, <<"b", "a", "b", "a">>,
      <<"a", "b">>, <<"t", "h", "a", "t">>, <<"a", "b", "!", "b", "b", "b", "b">> }

RECURSIVE Join(_)
Join(words) ==
    IF words = <<>> THEN <<>>
    ELSE IF Len(words) = 1 THEN words[1]
    ELSE words[1] \o <<" ">> \o Join(Tail(words))

TitleTexts == {Join(words) : words \in UNION {[1..n -> Words] : n \in 0..MaxWords}}

InitSimilarity ==
    /\ Constructed
    /\ last \in {[input |-> [left |-> l, right |-> r], done |-> FALSE] :
                    l \in TitleTexts, r \in TitleTexts}

\* _similarity({'title': left}, {'title': right}), both ways round
Similarity ==
    /\ ~last.done
    /\ LET left_tokens  == text_tokens(last.input.left)
           right_tokens == text_tokens(last.input.right)
       IN  last' = [input |-> last.input, done |-> TRUE,
                    left_tokens |-> left_tokens, right_tokens |-> right_tokens,
                    forth |-> token_similarity(left_tokens, right_tokens),
                    back  |-> token_similarity(right_tokens, left_tokens),
                    self  |-> token_similarity(left_tokens, left_tokens)]
    /\ UNCHANGED <<now, pc, cycles, max_per_hour, pending_news, breaking_publish_times,
                   pending_breaking_digest, database, channel>>

NextSimilarity == Similarity

SpecSimilarity == InitSimilarity /\ [][NextSimilarity]_vars

\* ===================================================================
\* The duplicate gate of NewsDatabase, on one stored item and one
\* incoming item.  Strings are sequences of characters; an md5 digest is
\* represented by the text it is taken of.
\* ===================================================================
URL_WINDOW_DAYS == 30
TITLE_WINDOW_DAYS == 7
FUZZY_TITLE_PERCENT == 90

\* md5(f"{source}|{url}|{title.lower().strip()}")
generate_hash(title, url, source) == <<source, url, Strip(LowerSeq(title))>>

\* re.sub(r'[^\w\s]', ' ', text)
PunctToSpace(s) == [i \in DOMAIN s |-> IF IsPunct(s[i]) THEN " " ELSE s[i]]

normalize_content(title, description) ==
    Strip(Collapse(PunctToSpace(Strip(LowerSeq(title \o <<" ">> \o description)))))

\* '' when the normalized content is empty
generate_content_hash(title, description) == normalize_content(title, description)

\* set(text.split())
RECURSIVE SplitWords(_, _)
SplitWords(text, run) ==
    IF text = <<>> THEN (IF run = <<>> THEN {} ELSE {run})
    ELSE IF IsSpace(Head(text))
         THEN (IF run = <<>> THEN {} ELSE {run}) \cup SplitWords(Tail(text), <<>>)
         ELSE SplitWords(Tail(text), Append(run, Head(text)))

\* the row INSERTed by save_news; age is the number of days between its
\* published_at and the moment the gate is asked
NewsRow(title, url, source, category, description, age) ==
    [news_hash |-> generate_hash(title, url, source), title |-> title,
     source |-> source, url |-> url, category |-> category,
     content_hash |-> generate_content_hash(title, description), age |-> age]

\* news_hash is UNIQUE: a second INSERT of the same hash raises IntegrityError
NewsDatabase_save_news(db, title, url, source, category, description, age) ==
    IF \E row \in db : row.news_hash = generate_hash(title, url, source)
    THEN db
    ELSE db \cup {NewsRow(title, url, source, category, description, age)}

hash_match(row, title, url, source) == row.news_hash = generate_hash(title, url, source)

\* a comparison of the lowercased URLs as they stand
url_match_raw(row, url) ==
    /\ normalize_url(url) # <<>>
    /\ row.age < URL_WINDOW_DAYS
    /\ Strip(LowerSeq(row.url)) # <<>>
    /\ Strip(LowerSeq(url)) = Strip(LowerSeq(row.url))

url_match(row, url) ==
    /\ normalize_url(url) # <<>>
    /\ row.age < URL_WINDOW_DAYS
    /\ normalize_url(row.url) # <<>>
    /\ normalize_url(url) = normalize_url(row.url)

\* a comparison of content hashes that takes the empty hash for a hash
content_match_unguarded(row, title, description) ==
    row.content_hash = generate_content_hash(title, description)

content_match(row, title, description) ==
    /\ generate_content_hash(title, description) # <<>>
    /\ row.content_hash = generate_content_hash(title, description)

\* an overlap measured against the incoming title's words alone
title_words_similar_to_current(current_words, published_words) ==
    /\ current_words # {}
    /\ published_words # {}
    /\ 100 * Cardinality(current_words \cap published_words)
         > FUZZY_TITLE_PERCENT * Cardinality(current_words)

title_words_similar(current_words, published_words) ==
    /\ current_words # {}
    /\ published_words # {}
    /\ 100 * Cardinality(current_words \cap published_words)
         > FUZZY_TITLE_PERCENT * Max2(Cardinality(current_words), Cardinality(published_words))

title_match(row, title) ==
    /\ row.age < TITLE_WINDOW_DAYS
    /\ \/ normalize_title(title) = normalize_title(row.title)
       \/ title_words_similar(SplitWords(normalize_title(title), <<>>),
                              SplitWords(normalize_title(row.title), <<>>))

NewsDatabase_is_news_published(db, title, url, source, description) ==
    IF \E row \in db : hash_match(row, title, url, source) THEN TRUE
    ELSE IF \E row \in db : url_match(row, url) THEN TRUE
    ELSE IF \E row \in db : content_match(row, title, description) THEN TRUE
    ELSE \E row \in db : title_match(row, title)

\* -------------------------------------------------------------------
\* SpecGate: an item is saved, then the gate is asked about another item.
\* -------------------------------------------------------------------
Letters == <<"a", "b", "c", "d", "e", "f", "g", "h", "i", "j", "k">>

WordRow(n) == Join([i \in 1..n |-> <<Letters[i]>>])

GateTitles == {WordRow(9), WordRow(10), WordRow(11), <<"A", "!">>, <<"a">>, <<"!", "!">>}

GateUrls == {<<"A", "?", "x">>, <<"a", "/">>, <<"b">>, <<"/">>, <<"?", "x">>}

GateItems == [title : GateTitles, url : GateUrls, source : {"s1", "s2"},
              description : {<<>>, <<"d">>}]

Ages == {0, TITLE_WINDOW_DAYS, URL_WINDOW_DAYS}

InitGate ==
    /\ Constructed
    /\ last \in {[input |-> [stored |-> b, incoming |-> a, category |-> c, age |-> g],
                  saved |-> FALSE, done |-> FALSE] :
                    b \in GateItems, a \in GateItems, c \in {"c1", "c2"}, g \in Ages}

Unchanged8 == UNCHANGED <<now, pc, cycles, max_per_hour, pending_news,
                          breaking_publish_times, pending_breaking_digest, channel>>

\* db.save_news(title, url, source, category, published_at, description)
SaveNews ==
    /\ ~last.saved
    /\ LET b == last.input.stored
       IN  database' = NewsDatabase_save_news(database, b.title, b.url, b.source,
                                              last.input.category, b.description,
                                              last.input.age)
    /\ last' = [last EXCEPT !.saved = TRUE]
    /\ Unchanged8

\* db.is_news_published(title, url, source, description)
IsNewsPublished ==
    /\ last.saved
    /\ ~last.done
    /\ LET a == last.input.incoming
       IN  last' = [input |-> last.input, saved |-> TRUE, done |-> TRUE,
                    result |-> NewsDatabase_is_news_published(
                                   database, a.title, a.url, a.source, a.description)]
    /\ UNCHANGED database
    /\ Unchanged8

NextGate == SaveNews \/ IsNewsPublished

SpecGate == InitGate /\ [][NextGate]_vars

\* ===================================================================
\* publish_daily_digest: the collected items are filtered, put into the
\* fixed buckets, sorted and deduplicated; one post per bucket is sent,
\* and after a delay one more post per bucket that overflowed.
\* ===================================================================
MaxNews == 4

DIGEST_MAX_ITEMS == 1
DIGEST_SECOND_WAVE_DELAY_MINUTES == 30

\* two of the buckets of lines 668-675, in the order of the dict
BucketKeys == <<"conflict_world", "politics_rf">>

\* a collected item that passes _filter_news_for_digest and the lookback
\* test; bucket is the key computed from its topic and region
DigestItem(title, url, priority_score, published_at, bucket) ==
    [title |-> title, url |-> url, source |-> "s1", description |-> <<>>,
     priority_score |-> priority_score, published_at |-> published_at,
     bucket |-> bucket]

DigestItems ==
    { DigestItem(<<"a">>, <<"a", "/">>, 2, 1, "conflict_world"),
      DigestItem(<<"b">>, <<"A", "?", "x">>, 1, 2, "conflict_world"),
      DigestItem(<<"c">>, <<"c">>, 1, 1, "conflict_world"),
      DigestItem(<<"d">>, <<"/">>, 2, 2, "conflict_world"),
      DigestItem(<<"A", "!">>, <<"e">>, 1, 2, "conflict_world"),
      DigestItem(<<"f">>, <<"f">>, 2, 2, "conflict_world"),
      DigestItem(<<"a">>, <<"g">>, 1, 1, "politics_rf"),
      DigestItem(<<"h">>, <<"a", "/">>, 2, 2, "politics_rf"),
      DigestItem(<<"i">>, <<"?", "x">>, 1, 2, "politics_rf"),
      DigestItem(<<"j">>, <<"j">>, 2, 1, "politics_rf"),
      DigestItem(<<"k">>, <<"k">>, 1, 1, "economy_world") }

\* an order that puts the older of two equally scored items first
DigestKeyAtLeastOldestFirst(x, y) ==
    \/ x.priority_score > y.priority_score
    \/ x.priority_score = y.priority_score /\ x.published_at <= y.published_at

\* key=lambda x: (x.get('priority_score', 0.0), x['published_at'])
DigestKeyAtLeast(x, y) ==
    \/ x.priority_score > y.priority_score
    \/ x.priority_score = y.priority_score /\ x.published_at >= y.published_at

InsertByKey(sorted, x) ==
    LET n == Cardinality({i \in DOMAIN sorted : DigestKeyAtLeast(sorted[i], x)})
    IN  SubSeq(sorted, 1, n) \o <<x>> \o SubSeq(sorted, n + 1, Len(sorted))

\* items.sort(key=..., reverse=True): stable
RECURSIVE SortDigest(_)
SortDigest(items) ==
    IF items = <<>> THEN <<>>
    ELSE InsertByKey(SortDigest(SubSeq(items, 1, Len(items) - 1)), items[Len(items)])

\* a pass that remembers the URLs it has used but not the content hashes
RECURSIVE UniqueItemsByUrl(_, _, _)
UniqueItemsByUrl(items, used_urls, used_hashes) ==
    IF items = <<>>
    THEN [unique_items |-> <<>>, used_urls |-> used_urls, used_hashes |-> used_hashes]
    ELSE LET item == Head(items)
             normalized_url == normalize_url(item.url)
         IN  IF normalized_url # <<>> /\ normalized_url \in used_urls
             THEN UniqueItemsByUrl(Tail(items), used_urls, used_hashes)
             ELSE LET rest == UniqueItemsByUrl(
                                  Tail(items),
                                  IF normalized_url # <<>>
                                  THEN used_urls \cup {normalized_url} ELSE used_urls,
                                  used_hashes)
                  IN  [rest EXCEPT !.unique_items = <<item>> \o @]

\* lines 706-721
RECURSIVE UniqueItems(_, _, _)
UniqueItems(items, used_urls, used_hashes) ==
    IF items = <<>>
    THEN [unique_items |-> <<>>, used_urls |-> used_urls, used_hashes |-> used_hashes]
    ELSE LET item == Head(items)
             normalized_url == normalize_url(item.url)
             content_hash == generate_content_hash(item.title, item.description)
         IN  IF normalized_url # <<>> /\ normalized_url \in used_urls
             THEN UniqueItems(Tail(items), used_urls, used_hashes)
             ELSE IF content_hash # <<>> /\ content_hash \in used_hashes
             THEN UniqueItems(Tail(items), used_urls, used_hashes)
             ELSE LET rest == UniqueItems(
                                  Tail(items),
                                  IF normalized_url # <<>>
                                  THEN used_urls \cup {normalized_url} ELSE used_urls,
                                  IF content_hash # <<>>
                                  THEN used_hashes \cup {content_hash} ELSE used_hashes)
                  IN  [rest EXCEPT !.unique_items = <<item>> \o @]

RECURSIVE SaveDigestItems(_, _, _)
SaveDigestItems(db, items, bucket_key) ==
    IF items = <<>> THEN db
    ELSE SaveDigestItems(
             NewsDatabase_save_news(db, Head(items).title, Head(items).url, Head(items).source,
                                    bucket_key, Head(items).description, 0),
             Tail(items), bucket_key)

InitDigest ==
    /\ Constructed
    /\ last \in {[input |-> news, step |-> "collect"] :
                    news \in UNION {[1..n -> DigestItems] : n \in 0..MaxNews}}

\* lines 654-701: filter_new_news, the buckets, the sort
CollectForDigest ==
    /\ last.step = "collect"
    /\ LET new_news == SelectSeq(last.input,
                           LAMBDA news : ~NewsDatabase_is_news_published(
                               database, news.title, news.url, news.source, news.description))
           bucket(key) == SortDigest(SelectSeq(new_news, LAMBDA news : news.bucket = key))
       IN  last' = [input |-> last.input, step |-> "first_wave", index |-> 1,
                    buckets |-> [i \in DOMAIN BucketKeys |-> bucket(BucketKeys[i])],
                    used_urls |-> {}, used_hashes |-> {}, second_wave_posts |-> <<>>]
    /\ UNCHANGED <<now, pc, cycles, max_per_hour, pending_news, breaking_publish_times,
                   pending_breaking_digest, database, channel>>

AfterFirstWave(index, second_wave_posts) ==
    IF index < Len(BucketKeys) THEN "first_wave"
    ELSE IF second_wave_posts # <<>> THEN "sleep" ELSE "done"

\* lines 703-742, one bucket; sent = FALSE: _send_message raises and the
\* handler of line 769 ends the digest
FirstWavePost ==
    /\ last.step = "first_wave"
    /\ \E sent \in BOOLEAN :
          LET bucket_key == BucketKeys[last.index]
              pass == UniqueItems(last.buckets[last.index], last.used_urls, last.used_hashes)
              first_wave_items == Take(pass.unique_items, DIGEST_MAX_ITEMS)
              overflow_items == SubSeq(pass.unique_items, DIGEST_MAX_ITEMS + 1,
                                       Len(pass.unique_items))
              second_wave_posts ==
                  IF overflow_items # <<>>
                  THEN Append(last.second_wave_posts,
                              [bucket_key |-> bucket_key, overflow_items |-> overflow_items])
                  ELSE last.second_wave_posts
          IN  IF sent
              THEN /\ channel' = Append(channel, [wave |-> 1, bucket_key |-> bucket_key,
                                                  items |-> first_wave_items, at |-> now])
                   /\ database' = SaveDigestItems(database, first_wave_items, bucket_key)
                   /\ last' = [last EXCEPT !.step = AfterFirstWave(last.index, second_wave_posts),
                                           !.index = IF last.index < Len(BucketKeys)
                                                     THEN last.index + 1 ELSE 1,
                                           !.used_urls = pass.used_urls,
                                           !.used_hashes = pass.used_hashes,
                                           !.second_wave_posts = second_wave_posts]
              ELSE /\ last' = [last EXCEPT !.step = "failed"]
                   /\ UNCHANGED <<channel, database>>
    /\ UNCHANGED <<now, pc, cycles, max_per_hour, pending_news, breaking_publish_times,
                   pending_breaking_digest>>

\* lines 744-751: asyncio.sleep(delay_minutes * 60)
SecondWaveDelay ==
    /\ last.step = "sleep"
    /\ now' = now + DIGEST_SECOND_WAVE_DELAY_MINUTES
    /\ last' = [last EXCEPT !.step = "second_wave"]
    /\ UNCHANGED <<pc, cycles, max_per_hour, pending_news, breaking_publish_times,
                   pending_breaking_digest, database, channel>>

\* lines 753-768, one overflowed bucket
SecondWavePost ==
    /\ last.step = "second_wave"
    /\ \E sent \in BOOLEAN :
          LET post == last.second_wave_posts[last.index]
          IN  IF sent
              THEN /\ channel' = Append(channel, [wave |-> 2, bucket_key |-> post.bucket_key,
                                                  items |-> post.overflow_items, at |-> now])
                   /\ database' = SaveDigestItems(database, post.overflow_items, post.bucket_key)
                   /\ last' = [last EXCEPT !.step = IF last.index < Len(last.second_wave_posts)
                                                    THEN "second_wave" ELSE "done",
                                           !.index = last.index + 1]
              ELSE /\ last' = [last EXCEPT !.step = "failed"]
                   /\ UNCHANGED <<channel, database>>
    /\ UNCHANGED <<now, pc, cycles, max_per_hour, pending_news, breaking_publish_times,
                   pending_breaking_digest>>

NextDigest == CollectForDigest \/ FirstWavePost \/ SecondWaveDelay \/ SecondWavePost

SpecDigest == InitDigest /\ [][NextDigest]_vars

\* ===================================================================
\* is_low_value_news and the two places that act on it: the filter chain
\* of process_and_publish_news and _filter_news_for_digest.
\* ===================================================================
MaxPairs == 14

MIN_TITLE_LENGTH == 12
MIN_DESCRIPTION_LENGTH == 80
MIN_TAIL_LENGTH == 30
LOW_VALUE_OVERLAP_PERCENT == 90
LOW_VALUE_PATTERN_LENGTH == 220

\* two of config.LOW_VALUE_NEWS_PATTERNS, in Latin letters
LOW_VALUE_NEWS_PATTERNS == { <<"s", "h", "o", "k">>, <<"f", "o", "t", "o">> }

\* the characters of the tail's strip(): blank, '.', ':', '-' and the dash
TailSeparators == {" ", ".", ":", "-"}

StripOf(s, chars) ==
    LET keep == {i \in DOMAIN s : s[i] \notin chars}
    IN  IF keep = {} THEN <<>> ELSE SubSeq(s, MinOf(keep), MaxOf(keep))

StartsWith(s, prefix) ==
    Len(prefix) <= Len(s) /\ SubSeq(s, 1, Len(prefix)) = prefix

Contains(text, pattern) ==
    \E i \in 1..(Len(text) - Len(pattern) + 1) :
        SubSeq(text, i, i + Len(pattern) - 1) = pattern

is_low_value_news(news) ==
    LET title == Strip(LowerSeq(news.title))
        description == Strip(LowerSeq(news.description))
        text == Strip(title \o <<" ">> \o description)
        normalized_title == Collapse(title)
        normalized_description == Collapse(description)
        tail == StripOf(SubSeq(normalized_description, Len(normalized_title) + 1,
                               Len(normalized_description)), TailSeparators)
        tokens_of_title == text_tokens(normalized_title)
        tokens_of_description == text_tokens(normalized_description)
    IN  IF title = <<>> \/ Len(title) < MIN_TITLE_LENGTH THEN TRUE
        ELSE IF normalized_description = <<>> THEN TRUE
        ELSE IF Len(normalized_description) < MIN_DESCRIPTION_LENGTH THEN TRUE
        ELSE IF normalized_description = normalized_title THEN TRUE
        ELSE IF StartsWith(normalized_description, normalized_title)
                /\ Len(tail) < MIN_TAIL_LENGTH THEN TRUE
        ELSE IF /\ tokens_of_title # {}
                /\ tokens_of_description # {}
                /\ 100 * Cardinality(tokens_of_title \cap tokens_of_description)
                     >= LOW_VALUE_OVERLAP_PERCENT * Max2(Cardinality(tokens_of_title), 1)
                /\ Cardinality(tokens_of_description) <= Cardinality(tokens_of_title) + 2 THEN TRUE
        ELSE IF /\ \E pattern \in LOW_VALUE_NEWS_PATTERNS : Contains(text, pattern)
                /\ Len(normalized_description) < LOW_VALUE_PATTERN_LENGTH THEN TRUE
        ELSE FALSE

\* a text of n repetitions of a pair of words
Phrase(pair, n) == Join([i \in 1..(2 * n) |-> pair[2 - (i % 2)]])

WordPairs ==
    { << <<"a", "b", "!">>, <<"c", "d", "!">> >>,
      << <<"a", "b">>, <<"c", "d">> >>,
      << <<"A", "b">>, <<"c", "d">> >>,
      << <<"a", "b", "b", "a", "!">>, <<"b", "a", "b", "a", "!">> >>,
      << <<"a", "b", "b", "a">>, <<"b", "a", "b", "a">> >>,
      << <<"a", "b", "b", "a">>, <<"f", "o", "t", "o">> >> }

LowValueTexts == {Phrase(pair, n) : pair \in WordPairs, n \in {0, 1, 2, MaxPairs}}

\* other_filters: the item passes the topic, category, local-noise and
\* crime filters
InitLowValue ==
    /\ Constructed
    /\ last \in {[input |-> [title |-> t, description |-> d, url |-> <<"u">>, source |-> "s1"],
                  other_filters |-> o, processed |-> FALSE, digested |-> FALSE] :
                    t \in LowValueTexts, d \in LowValueTexts, o \in BOOLEAN}

\* process_and_publish_news, lines 476-494 and the add to pending_news
FilterForPending ==
    /\ ~last.processed
    /\ pending_news' = IF last.other_filters /\ ~is_low_value_news(last.input)
                       THEN Append(pending_news, [key |-> last.input.url, news |-> last.input])
                       ELSE pending_news
    /\ last' = [input |-> last.input, other_filters |-> last.other_filters,
                processed |-> TRUE, digested |-> last.digested,
                low_value |-> is_low_value_news(last.input)]
    /\ UNCHANGED <<now, pc, cycles, max_per_hour, breaking_publish_times,
                   pending_breaking_digest, database, channel>>

\* publish_daily_digest, lines 662-666 with _filter_news_for_digest, and the
\* post of the item's bucket
FilterForDigest ==
    /\ ~last.digested
    /\ channel' = IF last.other_filters /\ ~is_low_value_news(last.input)
                  THEN Append(channel, [wave |-> 1, bucket_key |-> "politics_rf",
                                        items |-> <<last.input>>, at |-> now])
                  ELSE channel
    /\ last' = [input |-> last.input, other_filters |-> last.other_filters,
                processed |-> last.processed, digested |-> TRUE,
                low_value |-> is_low_value_news(last.input)]
    /\ UNCHANGED <<now, pc, cycles, max_per_hour, pending_news, breaking_publish_times,
                   pending_breaking_digest, database>>

NextLowValue == FilterForPending \/ FilterForDigest

SpecLowValue == InitLowValue /\ [][NextLowValue]_vars

\* ===================================================================
\* The classifier: _detect_topic, _detect_region, _detect_categories, and
\* the two places that drop an item without categories.  A text is the set
\* of the keywords that occur in it.
\* ===================================================================
ARMED_CONFLICT_KEYWORDS == {"strike", "troops"}
NON_CONFLICT_NOISE_KEYWORDS == {"game"}
ECONOMY_KEYWORDS == {"ruble", "budget"}
NON_ECONOMIC_SOCIAL_KEYWORDS == {"school", "pension"}
SOCIETY_KEYWORDS == {"school", "health"}
POLITICS_KEYWORDS == {"duma", "election"}
RUSSIA_KEYWORDS == {"moscow"}
WORLD_KEYWORDS == {"nato"}

Keywords ==
    ARMED_CONFLICT_KEYWORDS \cup NON_CONFLICT_NOISE_KEYWORDS \cup ECONOMY_KEYWORDS
    \cup NON_ECONOMIC_SOCIAL_KEYWORDS \cup SOCIETY_KEYWORDS \cup POLITICS_KEYWORDS
    \cup RUSSIA_KEYWORDS \cup WORLD_KEYWORDS

\* sum(1 for keyword in keywords if keyword in text)
keyword_score(text, keywords) == Cardinality({keyword \in keywords : keyword \in text})

is_armed_conflict_news(text) ==
    IF keyword_score(text, ARMED_CONFLICT_KEYWORDS) = 0 THEN FALSE
    ELSE ~(\E keyword \in NON_CONFLICT_NOISE_KEYWORDS : keyword \in text)

is_economy_news(text) ==
    IF keyword_score(text, ECONOMY_KEYWORDS) = 0 THEN FALSE
    ELSE keyword_score(text, ECONOMY_KEYWORDS)
           > keyword_score(text, NON_ECONOMIC_SOCIAL_KEYWORDS)

\* a society test that wants strictly more society than politics keywords
is_society_news_strict(text) ==
    /\ keyword_score(text, SOCIETY_KEYWORDS) > 0
    /\ keyword_score(text, SOCIETY_KEYWORDS) > keyword_score(text, POLITICS_KEYWORDS)

is_society_news(text) ==
    /\ keyword_score(text, SOCIETY_KEYWORDS) > 0
    /\ keyword_score(text, SOCIETY_KEYWORDS) >= keyword_score(text, POLITICS_KEYWORDS)

is_politics_news(text) == keyword_score(text, POLITICS_KEYWORDS) > 0

detect_topic(text) ==
    IF is_armed_conflict_news(text) THEN "conflict"
    ELSE IF is_economy_news(text) THEN "economy"
    ELSE IF is_society_news(text) THEN "society"
    ELSE IF is_politics_news(text) THEN "politics"
    ELSE "undetermined"

\* category: the label the source gave the item
detect_region(text, category) ==
    IF keyword_score(text, RUSSIA_KEYWORDS) > keyword_score(text, WORLD_KEYWORDS) THEN "rf"
    ELSE IF keyword_score(text, WORLD_KEYWORDS) > 0 THEN "world"
    ELSE IF category \in {"rossiya", "rf"} THEN "rf"
    ELSE "world"

\* a categorisation that files an undetermined item under world politics
detect_categories_with_default(text, category) ==
    LET topic == detect_topic(text)
        region == detect_region(text, category)
    IN  IF topic = "conflict" THEN <<"conflict_" \o region>>
        ELSE IF topic = "economy" THEN (IF region = "rf" THEN <<"economy_rf">> ELSE <<>>)
        ELSE IF topic = "society" THEN (IF region = "rf" THEN <<"society_rf">> ELSE <<>>)
        ELSE <<"politics_" \o region>>

detect_categories(text, category) ==
    LET topic == detect_topic(text)
        region == detect_region(text, category)
    IN  IF topic = "undetermined" THEN <<>>
        ELSE IF topic = "conflict" THEN <<"conflict_" \o region>>
        ELSE IF topic = "economy" THEN (IF region = "rf" THEN <<"economy_rf">> ELSE <<>>)
        ELSE IF topic = "politics" THEN <<"politics_" \o region>>
        ELSE IF topic = "society" THEN (IF region = "rf" THEN <<"society_rf">> ELSE <<>>)
        ELSE <<>>

\* publish_daily_digest, lines 668-675
DigestBuckets ==
    {"conflict_world", "conflict_rf", "economy_rf", "politics_rf", "politics_world",
     "society_rf"}

\* publish_daily_digest, lines 682-689
digest_bucket_key(text, category) ==
    LET topic == detect_topic(text)
        region == detect_region(text, category)
    IN  IF region = "world" /\ topic \in {"economy", "society"} THEN "politics_world"
        ELSE topic \o "_" \o region

InitClassify ==
    /\ Constructed
    /\ last \in {[input |-> [text |-> t, category |-> c, url |-> <<"u">>],
                  detected |-> FALSE, processed |-> FALSE, digested |-> FALSE,
                  passed |-> FALSE] :
                    t \in SUBSET Keywords, c \in {"rossiya", "general"}}

DetectTopic ==
    /\ ~last.detected
    /\ last' = [input |-> last.input, detected |-> TRUE, processed |-> last.processed,
                digested |-> last.digested, passed |-> last.passed,
                topic |-> detect_topic(last.input.text)]
    /\ UNCHANGED <<now, pc, cycles, max_per_hour, pending_news, breaking_publish_times,
                   pending_breaking_digest, database, channel>>

\* process_and_publish_news, lines 476-548; passes: the item is let through
\* by every other filter of the chain
ClassifyForPending ==
    /\ last.detected
    /\ ~last.processed
    /\ \E passes \in BOOLEAN :
          LET categories == detect_categories(last.input.text, last.input.category)
          IN  pending_news' =
                  IF categories # <<>> /\ passes
                  THEN Append(pending_news,
                              [key |-> last.input.url,
                               news |-> [url |-> last.input.url, text |-> last.input.text,
                                         categories |-> categories]])
                  ELSE pending_news
    /\ last' = [last EXCEPT !.processed = TRUE]
    /\ UNCHANGED <<now, pc, cycles, max_per_hour, breaking_publish_times,
                   pending_breaking_digest, database, channel>>

\* publish_daily_digest, lines 662-689 with _filter_news_for_digest
ClassifyForDigest ==
    /\ last.detected
    /\ ~last.digested
    /\ \E passes \in BOOLEAN :
          LET categories == detect_categories(last.input.text, last.input.category)
              bucket_key == digest_bucket_key(last.input.text, last.input.category)
          IN  /\ channel' =
                  IF /\ categories # <<>>
                     /\ passes
                     /\ detect_topic(last.input.text) # "undetermined"
                     /\ bucket_key \in DigestBuckets
                  THEN Append(channel, [wave |-> 1, bucket_key |-> bucket_key,
                                        items |-> <<last.input>>, at |-> now])
                  ELSE channel
          /\ last' = [last EXCEPT !.digested = TRUE, !.passed = passes]
    /\ UNCHANGED <<now, pc, cycles, max_per_hour, pending_news, breaking_publish_times,
                   pending_breaking_digest, database>>

NextClassify == DetectTopic \/ ClassifyForPending \/ ClassifyForDigest

SpecClassify == InitClassify /\ [][NextClassify]_vars

\* ===================================================================
\* NewsCollector: fetch_feed for each source, run together by
\* collect_all_news.  One Request step is one session.get with its outcome.
\* ===================================================================
MaxAttempts == 3

\* retry_backoff_seconds, in tenths of a second
RSS_FETCH_RETRY_BACKOFF == 15

FetchSources == <<"feed1", "feed2">>

\* what one request can come to: a feed with entries, a feed feedparser reads
\* no entry from, an exception while the response is read or parsed, and the
\* HTTP and timeout failures
FetchOutcomes ==
    {"entries", "no_entries", "parse_error", "http_4xx", "http_429", "http_5xx", "timeout"}

\* the items read from a source's feed
FeedItems(i) == << [source |-> FetchSources[i], published_at |-> i] >>

NoFetch == [attempt |-> 1, state |-> "request", outcomes |-> <<>>, backoffs |-> <<>>,
            result |-> "pending", items |-> <<>>]

\* a fetch that goes on to the next attempt after a 4xx answer
AfterRequestRetryAll(fetch, outcome, items, retry_attempts) ==
    LET tried == [fetch EXCEPT !.outcomes = Append(@, outcome)]
    IN  IF outcome \in {"entries", "no_entries"}
        THEN [tried EXCEPT !.state = "returned", !.result = "list",
                           !.items = IF outcome = "entries" THEN items ELSE <<>>]
        ELSE IF fetch.attempt < retry_attempts
        THEN [tried EXCEPT !.state = "backoff"]
        ELSE [tried EXCEPT !.state = "returned", !.result = "None"]

\* lines 87-165, one pass of the loop body up to the sleep
AfterRequest(fetch, outcome, items, retry_attempts) ==
    LET tried == [fetch EXCEPT !.outcomes = Append(@, outcome)]
    IN  IF outcome \in {"entries", "no_entries"}
        THEN [tried EXCEPT !.state = "returned", !.result = "list",
                           !.items = IF outcome = "entries" THEN items ELSE <<>>]
        ELSE IF outcome = "http_4xx"
        THEN [tried EXCEPT !.state = "returned", !.result = "None"]
        ELSE IF fetch.attempt < retry_attempts
        THEN [tried EXCEPT !.state = "backoff"]
        ELSE [tried EXCEPT !.state = "returned", !.result = "None"]

\* a sleep of the same length before every retry
AfterBackoffFlat(fetch) ==
    [fetch EXCEPT !.state = "request", !.attempt = @ + 1,
                  !.backoffs = Append(@, RSS_FETCH_RETRY_BACKOFF)]

\* lines 162-163: asyncio.sleep(self.retry_backoff_seconds * attempt)
AfterBackoff(fetch) ==
    [fetch EXCEPT !.state = "request", !.attempt = @ + 1,
                  !.backoffs = Append(@, RSS_FETCH_RETRY_BACKOFF * fetch.attempt)]

RECURSIVE SortByPublishedAt(_)
SortByPublishedAt(items) ==
    IF items = <<>> THEN <<>>
    ELSE LET sorted == SortByPublishedAt(SubSeq(items, 1, Len(items) - 1))
             x == items[Len(items)]
             n == Cardinality({i \in DOMAIN sorted : sorted[i].published_at >= x.published_at})
         IN  SubSeq(sorted, 1, n) \o <<x>> \o SubSeq(sorted, n + 1, Len(sorted))

RECURSIVE ExtendAll(_, _)
ExtendAll(fetches, i) ==
    IF i > Len(fetches) THEN <<>>
    ELSE (IF fetches[i].result = "list" THEN fetches[i].items ELSE <<>>)
         \o ExtendAll(fetches, i + 1)

InitFetch ==
    /\ Constructed
    /\ last \in {[retry_attempts |-> r, fetches |-> [i \in DOMAIN FetchSources |-> NoFetch],
                  collected |-> FALSE] : r \in 1..MaxAttempts}

Request ==
    /\ \E i \in DOMAIN FetchSources : \E outcome \in FetchOutcomes :
          /\ last.fetches[i].state = "request"
          /\ last' = [last EXCEPT !.fetches[i] =
                          AfterRequest(@, outcome, FeedItems(i), last.retry_attempts)]
    /\ UNCHANGED <<now, pc, cycles, max_per_hour, pending_news, breaking_publish_times,
                   pending_breaking_digest, database, channel>>

Backoff ==
    /\ \E i \in DOMAIN FetchSources :
          /\ last.fetches[i].state = "backoff"
          /\ last' = [last EXCEPT !.fetches[i] = AfterBackoff(@)]
    /\ UNCHANGED <<now, pc, cycles, max_per_hour, pending_news, breaking_publish_times,
                   pending_breaking_digest, database, channel>>

\* lines 180-203, once gather has every result
CollectAllNews ==
    /\ ~last.collected
    /\ \A i \in DOMAIN FetchSources : last.fetches[i].state = "returned"
    /\ last' = [retry_attempts |-> last.retry_attempts, fetches |-> last.fetches,
                collected |-> TRUE,
                all_news |-> SortByPublishedAt(ExtendAll(last.fetches, 1)),
                last_fetch_stats |->
                    [i \in DOMAIN FetchSources |->
                        IF last.fetches[i].result = "list"
                        THEN [success |-> 1, fail |-> 0, items |-> Len(last.fetches[i].items)]
                        ELSE [success |-> 0, fail |-> 1, items |-> 0]]]
    /\ UNCHANGED <<now, pc, cycles, max_per_hour, pending_news, breaking_publish_times,
                   pending_breaking_digest, database, channel>>

NextFetch == Request \/ Backoff \/ CollectAllNews

SpecFetch == InitFetch /\ [][NextFetch]_vars

\* every started coroutine is run on by the event loop
SpecFetchLive == SpecFetch /\ WF_vars(NextFetch)

\* ===================================================================
\* NewsDatabase.save_news with the ids of the rows: the table news is a
\* sequence of rows, the id of a row (INTEGER PRIMARY KEY AUTOINCREMENT,
\* no row is deleted here) is its position.
\* ===================================================================
MaxSaves == 3

\* INSERT INTO news without the UNIQUE constraint on news_hash
InsertNewsAlways(table, row) == Append(table, row)

\* INSERT INTO news: news_hash is UNIQUE, the INSERT of a stored hash raises
\* sqlite3.IntegrityError and the table stays as it was
InsertNews(table, row) ==
    IF \E i \in DOMAIN table : table[i].news_hash = row.news_hash
    THEN table
    ELSE Append(table, row)

\* cursor.lastrowid after the INSERT, or SELECT id FROM news WHERE news_hash = ?
\* in the handler of IntegrityError ("None" when the SELECT finds no row)
SavedNewsId(before, after, row) ==
    IF Len(after) > Len(before)
    THEN Len(after)
    ELSE IF \E i \in DOMAIN after : after[i].news_hash = row.news_hash
         THEN CHOOSE i \in DOMAIN after : after[i].news_hash = row.news_hash
         ELSE "None"

SaveTitles == {<<"A">>, <<"a", " ">>, <<"b">>}

SaveInputs == [title : SaveTitles, url : {<<"u">>, <<"v">>}, source : {"s1"},
              category : {"c1", "c2"}, description : {<<>>}]

InitSave ==
    /\ Constructed
    /\ last \in {[input |-> items, calls |-> 0, table |-> <<>>, before |-> <<>>,
                  returned |-> "None"] :
                    items \in UNION {[1..n -> SaveInputs] : n \in 1..MaxSaves}}

\* db.save_news(title, url, source, category, published_at, description)
SaveNewsRow ==
    /\ last.calls < Len(last.input)
    /\ LET item == last.input[last.calls + 1]
           row == NewsRow(item.title, item.url, item.source, item.category,
                          item.description, 0)
           after == InsertNews(last.table, row)
       IN  /\ last' = [last EXCEPT !.calls = @ + 1,
                                   !.before = last.table,
                                   !.table = after,
                                   !.returned = SavedNewsId(last.table, after, row)]
           /\ database' = NewsDatabase_save_news(database, item.title, item.url, item.source,
                                                 item.category, item.description, 0)
    /\ Unchanged8

NextSave == SaveNewsRow

SpecSave == InitSave /\ [][NextSave]_vars

\* ===================================================================
\* run_continuously: the loop and the coroutines it awaits.  A coroutine
\* that has been started runs in steps of its own; the loop goes on when
\* the await of it returns.  An exception raised inside a coroutine is
\* caught by the nearest handler; the clock is counted in sleeps of the
\* loop until the daily digest is due.
\* ===================================================================
SleepsPerDay == 2

MaxErrors == 2

Coroutines == {"digest", "report", "breaking", "flush"}

\* await coroutine(): the caller goes on at once, as after create_task
AwaitNothing(running, kind) == TRUE

\* await coroutine(), lines 857, 858, 863, 864: the caller goes on when the
\* coroutine has finished
Await(running, kind) ==
    kind \notin running

\* no handler around the calls of the loop body
HandlerInsideOnly(kind) ==
    IF kind = "breaking" THEN "process_and_publish_news"
    ELSE IF kind = "digest" THEN "publish_daily_digest"
    ELSE "none"

\* the handler that catches an exception raised inside the coroutine: the
\* except of process_and_publish_news (line 609), of publish_daily_digest
\* (line 769), or of the loop (line 871) for the mini-digest flush and the
\* admin report, which have none around their database calls and sends
Handler(kind) ==
    IF kind = "breaking" THEN "process_and_publish_news"
    ELSE IF kind = "digest" THEN "publish_daily_digest"
    ELSE "run_continuously"

NoLoop(enable) ==
    [enable |-> enable, until_digest |-> 0, running |-> {}, digest_at |-> "idle",
     result |-> "none", errors |-> 0, error_site |-> "none", caught_by |-> "none",
     phase |-> "none", stopped_by |-> "none"]

InitLoop ==
    /\ Constructed
    /\ \E enable \in BOOLEAN, until \in 0..SleepsPerDay :
          last = [NoLoop(enable) EXCEPT !.until_digest = until]

UnchangedLoop == UNCHANGED <<now, cycles, max_per_hour, pending_news, breaking_publish_times,
                             pending_breaking_digest, database, channel>>

\* a coroutine is started: it is a further cycle when the loop has slept
\* since the last exception
Started(l, kind) ==
    [l EXCEPT !.running = @ \cup {kind},
              !.result = "none",
              !.digest_at = IF kind = "digest" THEN "first_wave" ELSE @,
              !.phase = IF @ = "slept" /\ kind # "report" THEN "resumed" ELSE @]

\* a coroutine returns
Returned(l, kind) ==
    [l EXCEPT !.running = @ \ {kind},
              !.result = "returned",
              !.digest_at = IF kind = "digest" THEN "idle" ELSE @]

\* an exception is raised inside a coroutine: it is caught and logged by the
\* handler inside it, and the coroutine returns, or it leaves the coroutine
Raised(l, kind) ==
    [l EXCEPT !.running = @ \ {kind},
              !.result = IF Handler(kind) \in {"process_and_publish_news", "publish_daily_digest"}
                         THEN "returned" ELSE "raised",
              !.digest_at = IF kind = "digest" THEN "idle" ELSE @,
              !.errors = IF Handler(kind) = "none" \/ @ = MaxErrors THEN @ ELSE @ + 1,
              !.error_site = kind,
              !.caught_by = Handler(kind),
              !.phase = "caught"]

\* lines 853-866: the top of an iteration
LoopTop ==
    /\ pc = "loop"
    /\ IF last.until_digest = 0
       THEN /\ last' = Started(last, "digest")
            /\ pc' = "await_digest"
       ELSE IF last.enable
       THEN /\ last' = Started(last, "breaking")
            /\ pc' = "await_breaking"
       ELSE /\ last' = last
            /\ pc' = "sleep"
    /\ UnchangedLoop

\* publish_daily_digest, lines 652-742: the first wave
DigestFirstWave ==
    /\ "digest" \in last.running
    /\ last.digest_at = "first_wave"
    /\ \E outcome \in {"done", "overflow", "raise"} :
          last' = IF outcome = "done" THEN Returned(last, "digest")
                  ELSE IF outcome = "overflow" THEN [last EXCEPT !.digest_at = "delay"]
                  ELSE Raised(last, "digest")
    /\ UNCHANGED pc
    /\ UnchangedLoop

\* line 751: the delay before the second wave
DigestDelay ==
    /\ "digest" \in last.running
    /\ last.digest_at = "delay"
    /\ last' = [last EXCEPT !.digest_at = "second_wave"]
    /\ UNCHANGED pc
    /\ UnchangedLoop

\* lines 753-768: the second wave
DigestSecondWave ==
    /\ "digest" \in last.running
    /\ last.digest_at = "second_wave"
    /\ \E raise \in BOOLEAN :
          last' = IF raise THEN Raised(last, "digest") ELSE Returned(last, "digest")
    /\ UNCHANGED pc
    /\ UnchangedLoop

\* line 858
AfterDigest ==
    /\ pc = "await_digest"
    /\ Await(last.running, "digest")
    /\ last' = Started(last, "report")
    /\ pc' = "await_report"
    /\ UnchangedLoop

\* _send_admin_report, lines 824-846
SendAdminReport ==
    /\ "report" \in last.running
    /\ \E raise \in BOOLEAN :
          last' = IF raise THEN Raised(last, "report") ELSE Returned(last, "report")
    /\ UNCHANGED pc
    /\ UnchangedLoop

\* where the loop goes on after an awaited coroutine, lines 859-873
AfterAwait(l, on_return) ==
    IF l.result # "raised" THEN on_return
    ELSE IF l.caught_by = "run_continuously" THEN "error_sleep"
    ELSE "stopped"

\* lines 859-860, or the handler of line 871
AfterReport ==
    /\ pc = "await_report"
    /\ Await(last.running, "report")
    /\ pc' = AfterAwait(last, "loop")
    /\ last' = [last EXCEPT
                   !.until_digest = IF last.result # "raised" THEN SleepsPerDay ELSE @,
                   !.stopped_by = IF pc' = "stopped" THEN "exception" ELSE @]
    /\ UnchangedLoop

\* process_and_publish_news(breaking_only=True), lines 459-610
ProcessAndPublishNews ==
    /\ "breaking" \in last.running
    /\ \E raise \in BOOLEAN :
          last' = IF raise THEN Raised(last, "breaking") ELSE Returned(last, "breaking")
    /\ UNCHANGED pc
    /\ UnchangedLoop

\* line 864
AfterBreaking ==
    /\ pc = "await_breaking"
    /\ Await(last.running, "breaking")
    /\ last' = Started(last, "flush")
    /\ pc' = "await_flush"
    /\ UnchangedLoop

\* _publish_pending_breaking_digest, lines 802-822
FlushBreakingDigest ==
    /\ "flush" \in last.running
    /\ \E raise \in BOOLEAN :
          last' = IF raise THEN Raised(last, "flush") ELSE Returned(last, "flush")
    /\ UNCHANGED pc
    /\ UnchangedLoop

\* line 866, or the handler of line 871
AfterFlush ==
    /\ pc = "await_flush"
    /\ Await(last.running, "flush")
    /\ pc' = AfterAwait(last, "sleep")
    /\ last' = [last EXCEPT !.stopped_by = IF pc' = "stopped" THEN "exception" ELSE @]
    /\ UnchangedLoop

Slept(l) ==
    [l EXCEPT !.until_digest = IF @ = 0 THEN 0 ELSE @ - 1,
              !.phase = IF @ = "caught" THEN "slept" ELSE @]

\* line 867: the sleep between two iterations
Sleep ==
    /\ pc = "sleep"
    /\ pc' = "loop"
    /\ last' = Slept(last)
    /\ UnchangedLoop

\* line 873: the sleep after an exception
ErrorSleep ==
    /\ pc = "error_sleep"
    /\ pc' = "loop"
    /\ last' = Slept(last)
    /\ UnchangedLoop

\* lines 868-870 and 889: the stop signal ends the loop and what it awaits
Interrupt ==
    /\ pc # "stopped"
    /\ pc' = "stopped"
    /\ last' = [last EXCEPT !.running = {}, !.digest_at = "idle", !.stopped_by = "interrupt"]
    /\ UnchangedLoop

LoopStep ==
    \/ LoopTop
    \/ DigestFirstWave
    \/ DigestDelay
    \/ DigestSecondWave
    \/ AfterDigest
    \/ SendAdminReport
    \/ AfterReport
    \/ ProcessAndPublishNews
    \/ AfterBreaking
    \/ FlushBreakingDigest
    \/ AfterFlush
    \/ Sleep
    \/ ErrorSleep

NextLoop == LoopStep \/ Interrupt

SpecLoop == InitLoop /\ [][NextLoop]_vars

\* the event loop runs the coroutine whenever it can go on
SpecLoopLive == SpecLoop /\ WF_vars(LoopStep)

\* ===================================================================
\* Delivery of the posts of one cycle: _send_message, publish_news and
\* the publish loop over the matured topics of a pending map, with the
\* answers of Telegram to each attempt drawn in advance.
\* ===================================================================
\* what Telegram does with the first and, if it is made, the second attempt
SendAnswers == {<<"accepted", "accepted">>, <<"rejected", "accepted">>,
                <<"rejected", "rejected">>}

\* bot._send_message, lines 47-64: the attempts made and how the call ends
send_message(answers) ==
    IF answers[1] = "accepted"
    THEN [attempts |-> <<"Markdown">>, outcome |-> "True"]
    ELSE [attempts |-> <<"Markdown", "plain">>,
          outcome |-> IF answers[2] = "accepted" THEN "True" ELSE "raised"]

\* bot.publish_news, lines 66-78: an exception of _send_message is logged
\* and publish_news returns False
publish_news(answers) ==
    IF send_message(answers).outcome = "True" THEN "ok" ELSE "fail"

\* the pending maps whose topics were all first seen at time 0
SendMaps == {pending \in PendingMaps : \A e \in DOMAIN pending : pending[e].news.first_seen_at = 0}

InitSend ==
    /\ now = PUBLISH_DELAY_MINUTES
    /\ pc = "loop"
    /\ cycles = 0
    /\ max_per_hour = MaxLimit
    /\ pending_news \in SendMaps
    /\ breaking_publish_times = <<>>
    /\ pending_breaking_digest = <<>>
    /\ database = {}
    /\ channel = <<>>
    /\ last \in {[ran |-> FALSE, input |-> answers] :
                    answers \in [1..MaxTopics -> SendAnswers]}

\* lines 547-606 of process_and_publish_news(breaking_only=True)
PublishMatured ==
    /\ ~last.ran
    /\ LET matured_by_url == MaturedByUrl(pending_news, now, TRUE)
           publish_queue == PublishQueue(matured_by_url)
           outcome == [i \in DOMAIN publish_queue |-> publish_news(last.input[i])]
           st == PublishLoop(publish_queue, 1, outcome,
                     LoopStart(publish_queue, breaking_publish_times,
                               pending_breaking_digest, database, channel),
                     TRUE, now, max_per_hour)
       IN  /\ pending_news' =
                  IF st.aborted THEN pending_news
                  ELSE SelectSeq(pending_news, LAMBDA e : e.key \notin st.published_urls)
           /\ breaking_publish_times' = st.times
           /\ pending_breaking_digest' = st.digest
           /\ database' = st.db
           /\ channel' = st.log
           /\ last' = [ran |-> TRUE, input |-> last.input,
                       queue |-> [i \in DOMAIN publish_queue |->
                                    Handled(publish_queue[i], st.result[i])],
                       sends |-> [i \in DOMAIN publish_queue |->
                                    IF st.result[i] \in {"sent", "failed"}
                                    THEN send_message(last.input[i])
                                    ELSE [attempts |-> <<>>, outcome |-> "none"]],
                       completed |-> ~st.aborted]
    /\ UNCHANGED <<now, pc, cycles, max_per_hour>>

NextSend == PublishMatured

SpecSend == InitSend /\ [][NextSend]_vars

\* ===================================================================
\* The loop running for ever with every delivery and every save
\* succeeding.  The code reads the clock only in differences (now minus
\* first_seen_at, now minus one hour), so the clock is kept relative: a
\* sleep leaves now where it is and moves the timestamps of the state
\* back, down to the age from which on the code treats them alike.
\* ===================================================================
\* items a pending topic takes in before the feeds stop repeating them
MaxTopicItems == 3

\* first_seen_at of the pending topics after a sleep
AgedPending(pending, now_) ==
    [i \in DOMAIN pending |->
        [pending[i] EXCEPT !.news.first_seen_at =
            Max2(@ - CHECK_INTERVAL_MINUTES, now_ - PUBLISH_DELAY_MINUTES)]]

\* breaking_publish_times after a sleep
AgedTimes(times, now_) ==
    [i \in DOMAIN times |->
        Max2(times[i] - CHECK_INTERVAL_MINUTES, now_ - BREAKING_WINDOW_MINUTES - 1)]

\* line 863: process_and_publish_news(breaking_only=True), every post that
\* the loop reaches is delivered and saved; each value of the cycle is bound
\* once, in the order the code computes it
LiveCycle ==
    /\ pc = "loop"
    /\ \E all_news \in Batches :
       \E new_news \in {filter_new_news(all_news, database)} :
       \E filtered_news \in {Admit(new_news, <<>>,
                                   adaptive_breaking_threshold(Len(new_news)), TRUE)} :
       \E grouped_news \in {group_news_by_url(filtered_news, <<>>, now)} :
       \E pending \in {add_to_pending(pending_news, grouped_news)} :
       \E matured_by_url \in {MaturedByUrl(pending, now, TRUE)} :
       \E publish_queue \in {PublishQueue(matured_by_url)} :
       \E st \in {PublishLoop(publish_queue, 1, [i \in DOMAIN publish_queue |-> "ok"],
                      LoopStart(publish_queue, breaking_publish_times,
                                pending_breaking_digest, database, <<>>),
                      TRUE, now, max_per_hour)} :
          /\ SortedByDate(all_news)
          /\ \A e \in DOMAIN pending :
                 Len(pending[e].news.combined_items) <= MaxTopicItems
          /\ pending_news' = SelectSeq(pending, LAMBDA e : e.key \notin st.published_urls)
          /\ breaking_publish_times' = st.times
          /\ pending_breaking_digest' = st.digest
          /\ database' = st.db
          /\ last' = [ran |-> TRUE,
                      sent |-> UNION {TopicKeys(publish_queue[i]) :
                                        i \in {j \in DOMAIN publish_queue :
                                                  st.result[j] = "sent"}},
                      diverted |-> UNION {TopicKeys(publish_queue[i]) :
                                            i \in {j \in DOMAIN publish_queue :
                                                      st.result[j] = "diverted"}}]
    /\ pc' = "flush"
    /\ UNCHANGED <<now, cycles, max_per_hour, channel>>

\* line 864: _publish_pending_breaking_digest, the send succeeds
LiveFlush ==
    /\ pc = "flush"
    /\ pc' = "sleep"
    /\ database' = SaveDigest(database, Take(SortDesc(pending_breaking_digest),
                                             BREAKING_MINI_DIGEST_MAX_ITEMS))
    /\ pending_breaking_digest' = <<>>
    /\ UNCHANGED <<now, cycles, max_per_hour, pending_news, breaking_publish_times,
                   channel, last>>

\* lines 866-867: the sleep between two iterations
LiveSleep ==
    /\ pc = "sleep"
    /\ pc' = "loop"
    /\ pending_news' = AgedPending(pending_news, now)
    /\ breaking_publish_times' = AgedTimes(breaking_publish_times, now)
    /\ last' = NoCycle
    /\ UNCHANGED <<now, cycles, max_per_hour, pending_breaking_digest, database, channel>>

NextLive == LiveCycle \/ LiveFlush \/ LiveSleep

\* the event loop keeps running the iterations
SpecLive == Init /\ [][NextLive]_vars /\ WF_vars(NextLive)

\* ===================================================================
\* PostGenerator.format_structured_digest: the lines of the report and
\* the chunks they are packed into.  Cyrillic words are written with as
\* many Latin letters, the bullet as "o", the dash as "-", the ellipsis
\* as "$" and the clock sign as "@".
\* ===================================================================
MAX_FACT_LENGTH == 180

NewLine == "\n"

\* " (prodolzhenie)" of line 298, 14 characters
CONTINUATION == <<" ", "(", "p", "r", "o", "d", "o", "l", "z", "h", "e", "n", "i", ")">>

\* lines 264-267
ordered_sections ==
    << [block |-> <<"R", "O", "S", "S", "I", "A">>,
        rubrics |-> << <<"P", "o", "l", "i", "t", "i", "k", "a">>, <<"E", "k", "o", "n", "o", "m", "i", "k", "a">>, <<"B", "e", "z", "o", "p", "a", "s", "n", "o", "s", "t", "i">> >>],
       [block |-> <<"M", "I", "R">>,
        rubrics |-> << <<"G", "e", "o", "p", "o", "l", "i", "t", "i", "k", "a">>, <<"E", "k", "o", "n", "o", "m", "i", "k", "a">>, <<"Z", "h", "i", "z", "n", " ", "z", "a", " ", "r", "u", "b", "e", "z", "h", "m">> >>] >>

\* str.strip(): blanks, tabs and line ends
StripText(s) == StripOf(s, {" ", "\t", NewLine})

\* "\n".join(lines)
RECURSIVE JoinLines(_)
JoinLines(lines) ==
    IF lines = <<>> THEN <<>>
    ELSE IF Len(lines) = 1 THEN lines[1]
    ELSE lines[1] \o <<NewLine>> \o JoinLines(Tail(lines))

\* lines 254-259 of compress_to_fact_line, applied to the cleaned text
compress_to_fact_line(base) ==
    LET stripped == StripOf(base, {" ", ".", ",", "-"})
    IN  IF Len(stripped) > MAX_FACT_LENGTH
        THEN StripText(SubSeq(stripped, 1, MAX_FACT_LENGTH - 1)) \o <<"$">>
        ELSE stripped

\* lines 277-285: the lines of one rubric
RubricLines(rubric, bucket_items) ==
    << <<"_">> \o rubric \o <<"_">> >> \o
        (IF bucket_items = <<>> THEN << <<"o", " ", "-">> >>
         ELSE [i \in DOMAIN bucket_items |->
                  <<"o", " ">> \o compress_to_fact_line(bucket_items[i])] \o << <<>> >>)

\* lines 275-285: the lines of one block; grouped_news[b][r] is the bucket
BlockLines(b, grouped_news) ==
    << <<"*">> \o ordered_sections[b].block \o <<"*">> >> \o
        RubricLines(ordered_sections[b].rubrics[1], grouped_news[b][1]) \o
        RubricLines(ordered_sections[b].rubrics[2], grouped_news[b][2]) \o
        RubricLines(ordered_sections[b].rubrics[3], grouped_news[b][3])

\* the "dd.mm.YYYY HH:MM MSK" line of line 271
TimeLine == <<"@", " ", "0", "1", ".", "0", "1", ".", "2", "0", "2", "6", " ", "1", "2", ":", "0", "0", " ", "M", "S", "K">>

\* lines 269-285
ReportLines(title, grouped_news, generated_at) ==
    << <<"*">> \o title \o <<"*">> >> \o
        (IF generated_at THEN <<TimeLine>> ELSE <<>>) \o << <<>> >> \o
        BlockLines(1, grouped_news) \o BlockLines(2, grouped_news)

\* a chunk may be one character longer than the limit
FitsLoosely(candidate, max_length) == Len(candidate) <= max_length + 1

\* lines 288 and 296: len(candidate) <= self.max_length
Fits(candidate, max_length) ==
    Len(candidate) <= max_length

\* line 298: the first line of a continuation chunk, with its line end
ContinuationHeader(title) == <<"*">> \o title \o CONTINUATION \o <<"*", NewLine>>

\* lines 291-303: the loop over the lines
RECURSIVE PackLines(_, _, _, _, _)
PackLines(lines, chunks, current, title, max_length) ==
    IF lines = <<>>
    THEN (IF current # <<>> THEN Append(chunks, current) ELSE chunks)
    ELSE LET line == Head(lines)
             candidate == IF current # <<>>
                          THEN StripText(current \o <<NewLine>> \o line)
                          ELSE line
         IN  IF Fits(candidate, max_length)
             THEN PackLines(Tail(lines), chunks, candidate, title, max_length)
             ELSE PackLines(Tail(lines),
                            IF current # <<>> THEN Append(chunks, current) ELSE chunks,
                            ContinuationHeader(title) \o line, title, max_length)

\* lines 262-305
format_structured_digest(title, grouped_news, generated_at, max_length) ==
    LET lines == ReportLines(title, grouped_news, generated_at)
        full_text == StripText(JoinLines(lines))
    IN  IF Fits(full_text, max_length) THEN <<full_text>>
        ELSE PackLines(lines, <<>>, <<>>, title, max_length)

\* cleaned texts of news items: a short one, and one longer than a fact line
FactText(n) == [i \in 1..n |-> IF i % 7 = 0 THEN " " ELSE "a"]

MaxFact == 181

Buckets == {<<>>, <<FactText(3)>>, <<FactText(3), FactText(MaxFact)>>}

\* three of the six buckets are filled
GroupedNews ==
    {<< <<p, <<>>, <<>> >>, <<g, <<>>, z>> >> : p \in Buckets, g \in Buckets, z \in Buckets}

DigestTitles == {<<"T">>, [i \in 1..30 |-> "t"]}

\* self.max_length; MAX_POST_LENGTH of config.py is the last
MaxLengths == {10, 40, 199, 200, 230, 4500}

InitChunk ==
    /\ Constructed
    /\ last \in {[input |-> [title |-> t, grouped_news |-> g, generated_at |-> at,
                             max_length |-> m],
                  done |-> FALSE] :
                    t \in DigestTitles, g \in GroupedNews, at \in BOOLEAN, m \in MaxLengths}

FormatStructuredDigest ==
    /\ ~last.done
    /\ last' = [input |-> last.input, done |-> TRUE,
                lines |-> ReportLines(last.input.title, last.input.grouped_news,
                                      last.input.generated_at),
                chunks |-> format_structured_digest(last.input.title,
                               last.input.grouped_news, last.input.generated_at,
                               last.input.max_length)]
    /\ UNCHANGED <<now, pc, cycles, max_per_hour, pending_news, breaking_publish_times,
                   pending_breaking_digest, database, channel>>

NextChunk == FormatStructuredDigest

SpecChunk == InitChunk /\ [][NextChunk]_vars

\* ===================================================================
\* NewsDatabase: the currency_snapshots table.  Rates are integers in
\* units of 0.00001 and timestamps are minutes; `database` holds the rows
\* of the table, each with its AUTOINCREMENT id.
\* ===================================================================
MINUTES_PER_DAY == 1440

MaxSnapshots == 3

\* f"{x:.4f}" of a rate given in units of 0.00001 (no input is a tie)
Format4(x) == (x + 5) \div 10

\* lines 455-460: the payload that is hashed (md5 is one-to-one on it)
currency_snapshot_hash(rates) == <<Format4(rates.usd_rub), Format4(rates.eur_rub)>>

\* date(published_at)
DateOf(t) == t \div MINUTES_PER_DAY

\* lines 70-84 and 467-491: snapshot_hash is UNIQUE; the INSERT raises
\* IntegrityError on a hash the table already holds and the row is dropped
InsertSnapshot(table, row) ==
    IF \E r \in table : r.row.snapshot_hash = row.snapshot_hash
    THEN table
    ELSE table \cup {[id |-> Cardinality(table) + 1, row |-> row]}

\* lines 462-491
save_currency_snapshot(table, rates, post_type, published_at) ==
    InsertSnapshot(table, [snapshot_hash |-> currency_snapshot_hash(rates),
                           post_type |-> post_type,
                           usd_rub |-> rates.usd_rub,
                           eur_rub |-> rates.eur_rub,
                           published_at |-> published_at])

\* lines 511-526
has_currency_post_for_day(table, date_str, post_type) ==
    \E r \in table :
        DateOf(r.row.published_at) = date_str /\ r.row.post_type = post_type

\* 90.00000, 90.00004 (the same to four places) and 91.5; the euro is fixed
RateSets == {[usd_rub |-> u, eur_rub |-> 10000000] : u \in {9000000, 9000004, 9150000}}

PostTypes == {"morning", "evening"}

\* two moments of the first day and two of the second
SnapshotTimes == {540, 1080, 1980, 2520}

InitCurrency ==
    /\ Constructed
    /\ last = [ran |-> FALSE]

SaveCurrencySnapshot ==
    /\ cycles < MaxSnapshots
    /\ \E rates \in RateSets, post_type \in PostTypes, t \in SnapshotTimes :
          /\ t >= now
          /\ now' = t
          /\ database' = save_currency_snapshot(database, rates, post_type, t)
          /\ last' = [ran |-> TRUE, rates |-> rates, post_type |-> post_type, at |-> t,
                      saved |-> database' # database]
    /\ cycles' = cycles + 1
    /\ UNCHANGED <<pc, max_per_hour, pending_news, breaking_publish_times,
                   pending_breaking_digest, channel>>

NextCurrency == SaveCurrencySnapshot

SpecCurrency == InitCurrency /\ [][NextCurrency]_vars

\* ===================================================================
\* process_and_publish_news, lines 495-529 and 543-544: the admission of one
\* batch with titles, URLs and descriptions as texts.  The batch holds the
\* new items that lines 477-494 let through.
\* ===================================================================
MaxAdmit == 3

\* the duplicate check skips the URL comparison
AdmitWithoutUrlCheck(news, st, threshold, breaking_only) ==
    LET content_hash == generate_content_hash(news.title, news.description)
        seen == IF content_hash # <<>> THEN st.seen_content_hashes \cup {content_hash}
                ELSE st.seen_content_hashes
        scored == [news EXCEPT !.is_breaking = is_breaking_news(news, threshold)]
    IN  IF \E i \in DOMAIN st.filtered_news :
               normalize_title(news.title) = normalize_title(st.filtered_news[i].title)
        THEN st
        ELSE IF content_hash # <<>> /\ content_hash \in st.seen_content_hashes THEN st
        ELSE IF breaking_only /\ ~scored.is_breaking
        THEN [st EXCEPT !.seen_content_hashes = seen]
        ELSE [filtered_news |-> Append(st.filtered_news, scored),
              seen_content_hashes |-> seen]

\* lines 495-527 for one item
AdmitOne(news, st, threshold, breaking_only) ==
    LET normalized_title == normalize_title(news.title)
        normalized_url == normalize_url(news.url)
        content_hash == generate_content_hash(news.title, news.description)
        seen == IF content_hash # <<>> THEN st.seen_content_hashes \cup {content_hash}
                ELSE st.seen_content_hashes
        scored == [news EXCEPT !.is_breaking = is_breaking_news(news, threshold)]
    IN  IF \E i \in DOMAIN st.filtered_news :
               \/ normalized_title = normalize_title(st.filtered_news[i].title)
               \/ normalized_url = normalize_url(st.filtered_news[i].url)
        THEN st
        ELSE IF content_hash # <<>> /\ content_hash \in st.seen_content_hashes THEN st
        ELSE IF breaking_only /\ ~scored.is_breaking
        THEN [st EXCEPT !.seen_content_hashes = seen]
        ELSE [filtered_news |-> Append(st.filtered_news, scored),
              seen_content_hashes |-> seen]

\* lines 467-527: the loop over the batch
RECURSIVE AdmitBatch(_, _, _, _)
AdmitBatch(new_news, st, threshold, breaking_only) ==
    IF new_news = <<>> THEN st
    ELSE AdmitBatch(Tail(new_news), AdmitOne(Head(new_news), st, threshold, breaking_only),
                    threshold, breaking_only)

AdmitStart == [filtered_news |-> <<>>, seen_content_hashes |-> {}]

\* "a!b" and "a b" differ as normalized titles and agree as content; "A!" and
\* "a" agree as normalized titles
AdmitTitles == {<<"a", "!", "b">>, <<"a", " ", "b">>, <<"A", "!">>, <<"a">>}

AdmitUrls == {<<"A", "?", "x">>, <<"a", "/">>, <<"b">>}

AdmitItems ==
    [title : AdmitTitles, url : AdmitUrls, description : {<<"d">>},
     published_at : {0}, priority_score : {1, 2}, is_breaking : {FALSE}]

InitAdmit ==
    /\ Constructed
    /\ last \in {[ran |-> FALSE, input |-> b, breaking_only |-> m] :
                    b \in UNION {[1..n -> AdmitItems] : n \in 0..MaxAdmit},
                    m \in BOOLEAN}

AdmitAndGroup ==
    /\ ~last.ran
    /\ LET threshold == adaptive_breaking_threshold(Len(last.input))
           st == AdmitBatch(last.input, AdmitStart, threshold, last.breaking_only)
           grouped_news == group_news_by_url(st.filtered_news, <<>>, now)
       IN  /\ pending_news' = add_to_pending(pending_news, grouped_news)
           /\ last' = [ran |-> TRUE, input |-> last.input,
                       breaking_only |-> last.breaking_only, threshold |-> threshold,
                       filtered_news |-> st.filtered_news,
                       grouped_news |-> grouped_news]
    /\ UNCHANGED <<now, pc, cycles, max_per_hour, breaking_publish_times,
                   pending_breaking_digest, database, channel>>

NextAdmit == AdmitAndGroup

SpecAdmit == InitAdmit /\ [][NextAdmit]_vars

\* ===================================================================
\* Properties
\* ===================================================================
Delivered(i) == last.queue[i].result = "sent"

TopicOf(key) == last.topics[CHOOSE i \in DOMAIN last.topics : last.topics[i].key = key]

\* C1: under non-breaking processing a topic first seen at T is not selected
\* as matured, and no post made of it is sent, before T + PUBLISH_DELAY_MINUTES,
\* whatever was merged into it meanwhile.
C1_MaturationInvariant ==
    (last.ran /\ ~last.breaking_only) =>
        /\ \A i \in DOMAIN last.topics :
              last.topics[i].matured =>
                  last.at >= last.topics[i].first_seen_at + PUBLISH_DELAY_MINUTES
        /\ \A i \in DOMAIN last.queue : \A k \in last.queue[i].topics :
              last.at >= TopicOf(k).first_seen_at + PUBLISH_DELAY_MINUTES

\* a non-breaking cycle has sent a post made of a topic that took merges
C1_Witness ==
    /\ last.ran /\ ~last.breaking_only
    /\ \E i \in DOMAIN last.queue :
          /\ Delivered(i)
          /\ \E k \in last.queue[i].topics : TopicOf(k).items >= 2

\* C2: a topic created by an item flagged is_breaking is matured by a
\* breaking-only cycle that runs before the publish delay has elapsed, while
\* a topic of the same age that is not breaking is not.
C2_BreakingBypass ==
    (last.ran /\ last.breaking_only) =>
        \A i \in DOMAIN last.topics :
            (/\ last.topics[i].first_seen_at < last.at
             /\ last.at < last.topics[i].first_seen_at + PUBLISH_DELAY_MINUTES)
                => (last.topics[i].matured <=> last.topics[i].is_breaking)

\* C3: when a post has been delivered, every pending key that is the
\* normalized URL of one of its combined items is gone from the pending map
\* when the cycle ends, whatever happened to the posts after it.
C3_EvictedOnSuccess ==
    last.ran =>
        \A i \in DOMAIN last.queue :
            Delivered(i) => \A k \in last.queue[i].urls : ~HasKey(pending_news, k)

\* C4: when delivery of a post fails, the cycle removes none of the post's
\* topics from the pending map and persists none of its items.
C4_FailedStaysPending ==
    last.ran =>
        \A i \in DOMAIN last.queue :
            last.queue[i].result = "failed" =>
                /\ \A k \in last.queue[i].topics : HasKey(pending_news, k)
                /\ \A it \in last.queue[i].items :
                      ~\E row \in last.saved : row.title = it[1] /\ row.url = it[2]

\* C5: first_seen_at of a pending topic is set when the topic is created and
\* no step changes it while the topic stays in the pending map.
C5_FirstSeenImmutable ==
    [][\A i \in DOMAIN pending_news : \A j \in DOMAIN pending_news' :
          pending_news[i].key = pending_news'[j].key =>
              pending_news'[j].news.first_seen_at = pending_news[i].news.first_seen_at]_vars

\* a topic that took a merge in a cycle later than the one that created it
C5_Witness ==
    \E i \in DOMAIN pending_news :
        /\ Len(pending_news[i].news.combined_items) >= 2
        /\ pending_news[i].news.first_seen_at < now
        /\ last.ran

RECURSIVE MaxPublishedAt(_)
MaxPublishedAt(items) ==
    IF Len(items) = 1 THEN items[1].published_at
    ELSE Max2(items[1].published_at, MaxPublishedAt(Tail(items)))

\* C6: the published_at of a pending topic is the largest published_at of
\* its combined items.
C6_PublishedAtIsMax ==
    \A i \in DOMAIN pending_news :
        pending_news[i].news.published_at
            = MaxPublishedAt(pending_news[i].news.combined_items)

BreakingPosts(upto) ==
    {i \in 1..upto : channel[i].kind = "post" /\ channel[i].breaking_only}

\* C9: the posts published individually by breaking-only cycles within any
\* one hour never outnumber BREAKING_MAX_PER_HOUR, and each of them is
\* recorded in the timestamp window.
C9_BreakingRateLimit ==
    /\ \A j \in BreakingPosts(Len(channel)) :
          Cardinality({i \in BreakingPosts(j) :
                          channel[i].at > channel[j].at - BREAKING_WINDOW_MINUTES})
              <= max_per_hour
    /\ \A j \in BreakingPosts(Len(channel)) :
          \E t \in DOMAIN breaking_publish_times :
              breaking_publish_times[t] = channel[j].at

\* C10: a post diverted to the pending breaking digest is not sent as an
\* individual post afterwards.
C10_DivertedOnlyInDigest ==
    \A i, j \in DOMAIN channel :
        (i < j /\ channel[i].kind = "diverted" /\ channel[j].kind = "post")
            => channel[j].key # channel[i].key

\* ------------------------------------------- properties of SpecMerge
Merged == last # NoCycle

\* the URLs of the topics a post was made of
PostUrls(post) == {post.url} \cup SeqToSet(Get(post, "alternate_urls", <<>>))

\* positions in the input list of the topics a post was made of
Members(post) == {i \in DOMAIN last.input : last.input[i].url \in PostUrls(post)}

PostOf(i) == CHOOSE p \in DOMAIN last.posts : i \in Members(last.posts[p])

Similar(i, j) ==
    similarity(last.input[i], last.input[j]) >= CLUSTER_SIMILARITY_PERCENT

\* topics reachable from the set S along pairs that are similar
RECURSIVE Chained(_)
Chained(S) ==
    LET more == S \cup {j \in DOMAIN last.input : \E i \in S : Similar(i, j)}
    IN  IF more = S THEN S ELSE Chained(more)

\* C7 as stated: two matured topics joined by a chain of pairs of similarity
\* >= 0.4 are in the same output post, whatever the order of the list.
C7_SingleLinkClusters ==
    Merged =>
        \A i, j \in DOMAIN last.input :
            j \in Chained({i}) => PostOf(i) = PostOf(j)

RECURSIVE ConcatOf(_)
ConcatOf(S) ==
    IF S = {} THEN <<>>
    ELSE LET i == MinOf(S) IN last.input[i].combined_items \o ConcatOf(S \ {i})

\* C8: the combined_items of every post are the concatenation of the
\* combined_items of the matured topics of its cluster, every matured topic
\* is in exactly one post, no item of a topic that has not matured is in any
\* post, and topic_size of a merged post is the number of topics in it.
C8_PostsPartitionMatured ==
    Merged =>
        /\ \A i \in DOMAIN last.input :
              Cardinality({p \in DOMAIN last.posts : i \in Members(last.posts[p])}) = 1
        /\ \A p \in DOMAIN last.posts :
              LET post == last.posts[p]
              IN  /\ Members(post) # {}
                  /\ post.combined_items = ConcatOf(Members(post))
                  /\ Get(post, "is_merged_topic", FALSE) =>
                        post.topic_size = Cardinality(Members(post))
                  /\ Cardinality(Members(post)) >= 2 =>
                        Get(post, "is_merged_topic", FALSE)
        /\ \A e \in DOMAIN pending_news :
              (\A i \in DOMAIN last.input : last.input[i].url # pending_news[e].news.url)
                  => \A p \in DOMAIN last.posts :
                        \A k \in DOMAIN last.posts[p].combined_items :
                            normalize_url(last.posts[p].combined_items[k].url)
                                # pending_news[e].key

\* a merged post of two topics, one of them made of two items, while a
\* topic that has not matured stays behind
C8_Witness ==
    /\ Merged
    /\ \E p \in DOMAIN last.posts :
          /\ Get(last.posts[p], "is_merged_topic", FALSE)
          /\ last.posts[p].topic_size = 2
          /\ Len(last.posts[p].combined_items) = 3
    /\ Len(pending_news) > Len(last.input)

\* ------------------------------------------- properties of SpecThreshold
\* C11 as stated: for every configuration the threshold does not fall when
\* the batch grows.
C11_ThresholdMonotone ==
    last.done => last.low <= last.high

\* C11: for every configuration with BREAKING_NEWS_MIN_PRIORITY >= 1.0 the
\* threshold does not fall when the batch grows.
C11_ThresholdMonotoneFromOne ==
    (last.done /\ last.input.base >= Quarter) => last.low <= last.high

\* a 3-item and a 30-item batch under a base of at least 1.0 and a positive
\* delta: the threshold rises
C11_Witness ==
    /\ last.done
    /\ last.input.base >= Quarter /\ last.input.delta > 0
    /\ last.input.low_count = 3 /\ last.input.high_count = 30
    /\ last.low < last.high

\* ------------------------------------------- properties of SpecNormalize
\* C15: normalize_url applied twice gives what it gives applied once.
C15_NormalizeUrlIdempotent ==
    (last.done /\ last.kind = "url") => last.twice = last.once

\* C16: normalize_title applied twice gives what it gives applied once.
C16_NormalizeTitleIdempotent ==
    (last.done /\ last.kind = "title") => last.twice = last.once

\* a title whose punctuation, case and whitespace all had to go
C16_Witness ==
    /\ last.done /\ last.kind = "title"
    /\ last.once # <<>> /\ last.once # last.input
    /\ \E i \in DOMAIN last.input : IsPunct(last.input[i])
    /\ \E i \in DOMAIN last.input : IsSpace(last.input[i])

\* ------------------------------------------- properties of SpecSimilarity
\* C17: _similarity lies between 0 and 1, is the same both ways round, and
\* is 1 for a title with at least one token against itself.
C17_SimilarityBoundedSymmetric ==
    last.done =>
        /\ last.forth >= 0 /\ last.forth <= 100
        /\ last.forth = last.back
        /\ last.left_tokens # {} => last.self = 100

\* two titles that share one token of two, one of them in capitals
C17_Witness ==
    /\ last.done
    /\ last.forth > 0 /\ last.forth < 100
    /\ Cardinality(last.left_tokens) # Cardinality(last.right_tokens)
    /\ last.self = 100

\* C12 as stated: once an item has been saved with a published_at inside the
\* last 30 days, the gate answers True for every incoming item whose
\* normalized URL equals the stored item's normalized URL, whatever the
\* incoming title, source, description and the stored category.
C12_SameNormalizedUrlIsDuplicate ==
    (last.done /\ last.input.age < URL_WINDOW_DAYS
       /\ normalize_url(last.input.incoming.url) = normalize_url(last.input.stored.url))
        => last.result

\* C12 as amended: the same, for URLs whose normalized form is not empty.
C12_SameNonEmptyNormalizedUrlIsDuplicate ==
    (last.done /\ last.input.age < URL_WINDOW_DAYS
       /\ normalize_url(last.input.stored.url) # <<>>
       /\ normalize_url(last.input.incoming.url) = normalize_url(last.input.stored.url))
        => last.result

C12_Witness ==
    /\ last.done
    /\ last.input.age = TITLE_WINDOW_DAYS
    /\ last.input.incoming.url # last.input.stored.url
    /\ normalize_url(last.input.stored.url) # <<>>
    /\ normalize_url(last.input.incoming.url) = normalize_url(last.input.stored.url)
    /\ normalize_title(last.input.incoming.title) # normalize_title(last.input.stored.title)
    /\ last.input.incoming.source # last.input.stored.source
    /\ last.input.incoming.description # last.input.stored.description
    /\ last.result

Incoming == last.input.incoming

IncomingWords == SplitWords(normalize_title(Incoming.title), <<>>)

RowWords(row) == SplitWords(normalize_title(row.title), <<>>)

SameHash(row) ==
    row.news_hash = <<Incoming.source, Incoming.url, Strip(LowerSeq(Incoming.title))>>

SameUrlWithin30Days(row) ==
    /\ row.age < URL_WINDOW_DAYS
    /\ normalize_url(Incoming.url) # <<>>
    /\ normalize_url(Incoming.url) = normalize_url(row.url)

SameContentHash(row) ==
    /\ normalize_content(Incoming.title, Incoming.description) # <<>>
    /\ row.content_hash = normalize_content(Incoming.title, Incoming.description)

SameTitleWithin7Days(row) ==
    /\ row.age < TITLE_WINDOW_DAYS
    /\ normalize_title(Incoming.title) = normalize_title(row.title)

FuzzyTitleWithin7Days(row) ==
    /\ row.age < TITLE_WINDOW_DAYS
    /\ IncomingWords # {} /\ RowWords(row) # {}
    /\ 10 * Cardinality(IncomingWords \cap RowWords(row))
         > 9 * Cardinality(IF Cardinality(IncomingWords) >= Cardinality(RowWords(row))
                           THEN IncomingWords ELSE RowWords(row))

Recategorized(db, category) == {[row EXCEPT !.category = category] : row \in db}

Stored == last.input.stored

\* the gate asked about the stored item, against a store that holds only the
\* incoming item
AskedTheOtherWayRound ==
    NewsDatabase_is_news_published(
        NewsDatabase_save_news({}, Incoming.title, Incoming.url, Incoming.source,
                               last.input.category, Incoming.description, last.input.age),
        Stored.title, Stored.url, Stored.source, Stored.description)

\* C14: with both items inside every time window, asking the gate about A
\* against a store holding only B gives the same answer as asking about B
\* against a store holding only A.
C14_GateSymmetric ==
    (last.done /\ last.input.age = 0) => (last.result = AskedTheOtherWayRound)

C14_Witness ==
    /\ last.done
    /\ last.input.age = 0
    /\ last.result
    /\ AskedTheOtherWayRound
    /\ Cardinality(IncomingWords) < Cardinality(SplitWords(normalize_title(Stored.title), <<>>))
    /\ \A row \in database :
          ~SameHash(row) /\ ~SameUrlWithin30Days(row) /\ ~SameContentHash(row)

PostItems(i) == SeqToSet(channel[i].items)

HigherOrEqual(x, y) ==
    \/ x.priority_score > y.priority_score
    \/ x.priority_score = y.priority_score /\ ~(x.published_at < y.published_at)

Twins(x, y) ==
    \/ normalize_url(x.url) # <<>> /\ normalize_url(x.url) = normalize_url(y.url)
    \/ /\ normalize_content(x.title, x.description) # <<>>
       /\ normalize_content(x.title, x.description) = normalize_content(y.title, y.description)

\* C18: for each bucket with more unique items than DIGEST_MAX_ITEMS, the
\* first-wave post holds exactly DIGEST_MAX_ITEMS items, none of them below a
\* remaining item in (priority_score, published_at); a remaining item is in
\* no post but the second-wave post of its bucket; a second-wave post comes
\* after the first-wave posts of all buckets and at least the delay later;
\* and when the digest ends normally every item of a bucket is in one of the
\* bucket's two posts or has a twin by URL or content in some post.
C18_FirstWaveTopRestInSecondWave ==
    last.step # "collect" =>
        /\ \A k \in DOMAIN last.second_wave_posts :
              LET entry == last.second_wave_posts[k]
                  rest  == SeqToSet(entry.overflow_items)
              IN  /\ \E i \in DOMAIN channel :
                        /\ channel[i].wave = 1
                        /\ channel[i].bucket_key = entry.bucket_key
                        /\ Len(channel[i].items) = DIGEST_MAX_ITEMS
                        /\ Cardinality(PostItems(i)) = DIGEST_MAX_ITEMS
                        /\ \A x \in PostItems(i) : \A y \in rest : HigherOrEqual(x, y)
                  /\ \A y \in rest : \A j \in DOMAIN channel :
                        y \in PostItems(j) =>
                            channel[j].wave = 2 /\ channel[j].bucket_key = entry.bucket_key
                  /\ last.step = "done" =>
                        \E j \in DOMAIN channel :
                            /\ channel[j].wave = 2
                            /\ channel[j].bucket_key = entry.bucket_key
                            /\ PostItems(j) = rest
        /\ \A j \in DOMAIN channel :
              channel[j].wave = 2 =>
                  /\ \A b \in DOMAIN BucketKeys :
                        \E i \in 1..(j - 1) :
                            channel[i].wave = 1 /\ channel[i].bucket_key = BucketKeys[b]
                  /\ \A i \in DOMAIN channel :
                        channel[i].wave = 1 =>
                            /\ i < j
                            /\ channel[j].at >= channel[i].at + DIGEST_SECOND_WAVE_DELAY_MINUTES
        /\ last.step = "done" =>
              \A n \in DOMAIN last.input :
                  (\E b \in DOMAIN BucketKeys : last.input[n].bucket = BucketKeys[b]) =>
                      /\ \E j \in DOMAIN channel : \E y \in PostItems(j) :
                            y = last.input[n] \/ Twins(y, last.input[n])
                      /\ \A j \in DOMAIN channel :
                            last.input[n] \in PostItems(j) =>
                                channel[j].bucket_key = last.input[n].bucket

C18_Witness ==
    /\ last.step = "done"
    /\ Len(last.second_wave_posts) = 2
    /\ Len(channel) = 4
    /\ \E k \in DOMAIN last.second_wave_posts :
          \E y \in SeqToSet(last.second_wave_posts[k].overflow_items) :
              \E i \in DOMAIN channel : \E x \in PostItems(i) :
                  /\ channel[i].wave = 1
                  /\ x.priority_score = y.priority_score
                  /\ x.published_at > y.published_at

Placed == {<<i, p>> : i \in DOMAIN channel, p \in 1..MaxNews} \cap
          {ip \in (DOMAIN channel) \X (1..MaxNews) : ip[2] <= Len(channel[ip[1]].items)}

PlacedItem(ip) == channel[ip[1]].items[ip[2]]

\* C19 as stated: no two items placed in the posts of one digest, in any
\* buckets and waves, have the same normalized URL or the same non-empty
\* content hash.
C19_NoTwinsInDigest ==
    \A ip \in Placed : \A jq \in Placed :
        ip # jq =>
            /\ normalize_url(PlacedItem(ip).url) # normalize_url(PlacedItem(jq).url)
            /\ ~ /\ normalize_content(PlacedItem(ip).title, PlacedItem(ip).description) # <<>>
                 /\ normalize_content(PlacedItem(ip).title, PlacedItem(ip).description)
                      = normalize_content(PlacedItem(jq).title, PlacedItem(jq).description)

\* C19 as amended: no two placed items have the same non-empty normalized
\* URL or the same non-empty content hash.
C19_NoNonEmptyTwinsInDigest ==
    \A ip \in Placed : \A jq \in Placed :
        ip # jq => ~Twins(PlacedItem(ip), PlacedItem(jq))

C19_Witness ==
    /\ last.step = "done"
    /\ \E j \in DOMAIN channel : channel[j].wave = 2
    /\ \E n \in DOMAIN last.input : \E m \in DOMAIN last.input :
          /\ last.input[n].bucket # last.input[m].bucket
          /\ last.input[n].url # last.input[m].url
          /\ Twins(last.input[n], last.input[m])
          /\ \E ip \in Placed : PlacedItem(ip) = last.input[n]
          /\ \A jq \in Placed : PlacedItem(jq) # last.input[m]

TitleEchoed ==
    normalize_title(last.input.title) = normalize_title(last.input.description)

\* C20: an item whose description equals its title once case and punctuation
\* are ignored is judged low-value, is never added to the pending map and is
\* never placed in a digest.
C20_TitleEchoIsDropped ==
    TitleEchoed =>
        /\ (last.processed \/ last.digested) => last.low_value
        /\ pending_news = <<>>
        /\ channel = <<>>

\* the keyword counts of the text under classification
Hits(keywords) == Cardinality(last.input.text \cap keywords)

ConflictMatches ==
    Hits(ARMED_CONFLICT_KEYWORDS) > 0 /\ Hits(NON_CONFLICT_NOISE_KEYWORDS) = 0

SocietyMatches ==
    Hits(SOCIETY_KEYWORDS) > 0 /\ Hits(SOCIETY_KEYWORDS) >= Hits(POLITICS_KEYWORDS)

PoliticsMatches == Hits(POLITICS_KEYWORDS) > 0

FirstMatch(economy_matches) ==
    IF ConflictMatches THEN "conflict"
    ELSE IF economy_matches THEN "economy"
    ELSE IF SocietyMatches THEN "society"
    ELSE IF PoliticsMatches THEN "politics"
    ELSE "undetermined"

\* C21 as stated: _detect_topic returns the first match in the order conflict,
\* economy, society, politics, undetermined, where economy matches when the
\* economy score is positive and at least the social counter-score.
C21_TopicFirstMatch ==
    last.detected =>
        last.topic = FirstMatch(Hits(ECONOMY_KEYWORDS) > 0
                                /\ Hits(ECONOMY_KEYWORDS) >= Hits(NON_ECONOMIC_SOCIAL_KEYWORDS))

\* C21 as amended: the same, economy matching when the economy score is
\* positive and strictly above the social counter-score.
C21_TopicFirstMatchStrictEconomy ==
    last.detected =>
        last.topic = FirstMatch(Hits(ECONOMY_KEYWORDS) > 0
                                /\ Hits(ECONOMY_KEYWORDS) > Hits(NON_ECONOMIC_SOCIAL_KEYWORDS))

C21_Witness ==
    /\ last.detected
    /\ last.topic = "society"
    /\ Hits(ECONOMY_KEYWORDS) > 0
    /\ Hits(ECONOMY_KEYWORDS) = Hits(NON_ECONOMIC_SOCIAL_KEYWORDS)
    /\ Hits(SOCIETY_KEYWORDS) = Hits(POLITICS_KEYWORDS)
    /\ Hits(ARMED_CONFLICT_KEYWORDS) > 0

\* C22: an item whose topic is undetermined is never added to the pending
\* map and never placed in a digest bucket, and every entry of the pending
\* map carries a non-empty categories list.
C22_UndeterminedNeverAdmitted ==
    /\ \A i \in DOMAIN pending_news :
          /\ FirstMatch(Hits(ECONOMY_KEYWORDS) > Hits(NON_ECONOMIC_SOCIAL_KEYWORDS))
               # "undetermined"
          /\ pending_news[i].news.categories # <<>>
    /\ (last.detected /\ last.topic = "undetermined") =>
          pending_news = <<>> /\ channel = <<>>
    /\ \A j \in DOMAIN channel : \A n \in DOMAIN channel[j].items :
          \E keywords \in {ARMED_CONFLICT_KEYWORDS, ECONOMY_KEYWORDS, SOCIETY_KEYWORDS,
                           POLITICS_KEYWORDS} :
              channel[j].items[n].text \cap keywords # {}

C22_Witness ==
    /\ last.detected /\ last.processed /\ last.digested
    /\ last.topic = "undetermined"
    /\ Hits(POLITICS_KEYWORDS) = 0
    /\ Hits(ARMED_CONFLICT_KEYWORDS) > 0
    /\ Hits(ECONOMY_KEYWORDS) > 0

TransientOutcomes == {"http_429", "http_5xx", "timeout"}

Retries(f) == IF f.state = "request" THEN Len(f.outcomes) ELSE Len(f.outcomes) - 1

FetchBounded(f) ==
    /\ Len(f.outcomes) <= last.retry_attempts
    /\ Len(f.backoffs) = Retries(f)
    /\ \A k \in DOMAIN f.backoffs :
          /\ f.backoffs[k] > 0
          /\ k > 1 => f.backoffs[k] > f.backoffs[k - 1]

AllAttemptsTransient(f) ==
    /\ f.state = "returned"
    /\ Len(f.outcomes) = last.retry_attempts
    /\ \A k \in DOMAIN f.outcomes : f.outcomes[k] \in TransientOutcomes

FetchesWithinBounds ==
    /\ \A i \in DOMAIN FetchSources :
          /\ FetchBounded(last.fetches[i])
          /\ AllAttemptsTransient(last.fetches[i]) => last.fetches[i].result = "None"
    /\ last.collected =>
          \A i \in DOMAIN FetchSources :
              /\ AllAttemptsTransient(last.fetches[i]) =>
                    /\ last.last_fetch_stats[i].fail = 1
                    /\ \A n \in DOMAIN last.all_news :
                          last.all_news[n].source # FetchSources[i]
              /\ last.fetches[i].outcomes[Len(last.fetches[i].outcomes)] = "entries" =>
                    \E n \in DOMAIN last.all_news :
                        last.all_news[n].source = FetchSources[i]

\* C23: every fetch_feed makes at most retry_attempts requests, sleeps before
\* each retry for a time that grows with the attempt number, returns a
\* failure when every attempt met a timeout, a 5xx or a 429, and
\* collect_all_news then still returns the items of every source that
\* answered; and the collection always comes to its end.
C23_FetchBoundedAndEnds == []FetchesWithinBounds /\ <>(last.collected)

C23_Witness ==
    /\ last.collected
    /\ last.retry_attempts = MaxAttempts
    /\ AllAttemptsTransient(last.fetches[1])
    /\ Len(last.fetches[1].backoffs) = 2
    /\ last.fetches[2].outcomes = <<"timeout", "entries">>
    /\ Len(last.all_news) = 1

\* C24: a permanent failure (a 4xx answer other than 429, or a feed whose
\* parsing fails) ends fetch_feed for that source after that one attempt,
\* with a failed or empty result and no retry.
C24_PermanentFailureNotRetried ==
    \A i \in DOMAIN FetchSources :
        LET f == last.fetches[i]
        IN  (f.outcomes # <<>> /\ f.outcomes[1] \in {"http_4xx", "parse_error", "no_entries"}) =>
                /\ f.state = "returned"
                /\ Len(f.outcomes) = 1
                /\ f.backoffs = <<>>
                /\ f.result = "None" \/ f.items = <<>>

SavedItem == last.input[last.calls]

HashWasStored ==
    \E i \in DOMAIN last.before :
        last.before[i].news_hash = generate_hash(SavedItem.title, SavedItem.url, SavedItem.source)

\* C25: a save_news call for an item whose hash of (source, url, lowercased
\* title) is already stored returns the id of the stored row and leaves the
\* rows as they were; the table never holds two rows with the same hash.
C25_SaveIsIdempotent ==
    /\ \A i, j \in DOMAIN last.table :
           last.table[i].news_hash = last.table[j].news_hash => i = j
    /\ SeqToSet(last.table) = database
    /\ (last.calls > 0 /\ HashWasStored) =>
           /\ last.table = last.before
           /\ last.returned \in DOMAIN last.before
           /\ last.before[last.returned].news_hash =
                  generate_hash(SavedItem.title, SavedItem.url, SavedItem.source)

C25_Witness ==
    /\ last.calls = 3
    /\ HashWasStored
    /\ last.returned = 1
    /\ Len(last.table) = 2
    /\ SavedItem.title # last.table[1].title
    /\ SavedItem.category # last.table[1].category

\* ------------------------------------------------ C30, under SpecMerge
FirstMember(post) == last.input[MinOf(Members(post))]

\* C30: a post made of more than one topic carries the largest published_at
\* and the largest priority_score of its topics and the title of the first
\* of them; a post made of exactly one topic is that topic, field by field.
C30_MergedFieldsAndPassthrough ==
    Merged =>
        \A p \in DOMAIN last.posts :
            LET post == last.posts[p]
                members == Members(post)
            IN  IF Cardinality(members) > 1
                THEN /\ post.published_at = MaxOf({last.input[i].published_at : i \in members})
                     /\ post.priority_score = MaxOf({last.input[i].priority_score : i \in members})
                     /\ post.title = FirstMember(post).title
                ELSE \E i \in members : post = last.input[i]

\* a merged post whose first topic is older than the post and one of whose
\* topics has a smaller priority_score than the post, next to a post of one
\* topic of two items
C30_Witness ==
    /\ Merged
    /\ \E p, q \in DOMAIN last.posts :
          /\ Cardinality(Members(last.posts[p])) > 1
          /\ FirstMember(last.posts[p]).published_at < last.posts[p].published_at
          /\ \E i \in Members(last.posts[p]) :
                last.input[i].priority_score < last.posts[p].priority_score
          /\ Cardinality(Members(last.posts[q])) = 1
          /\ Len(last.posts[q].combined_items) = 2

\* ---------------------------------------------- properties of SpecLoop
\* C26: an exception raised inside a breaking cycle, a mini-digest flush or
\* a daily digest is caught and logged and never ends run_continuously; the
\* loop then sleeps, and after the sleep a further cycle is started (unless
\* the stop signal ends the loop first).
C26_ExceptionNeverStopsLoop ==
    /\ [](pc = "stopped" => last.stopped_by = "interrupt")
    /\ [](last.phase # "none" => last.errors > 0 /\ last.caught_by # "none")
    /\ (last.phase = "caught") ~> (last.phase = "resumed" \/ pc = "stopped")

\* the flush raised, the loop caught and logged it, slept and started the
\* next breaking cycle
C26_Witness ==
    /\ last.phase = "resumed"
    /\ last.error_site = "flush"
    /\ last.caught_by = "run_continuously"
    /\ pc = "await_breaking"
    /\ last.errors = 2

\* C28: at most one coroutine of the loop (breaking cycle, mini-digest flush,
\* daily digest with its second-wave delay, admin report) is in progress at
\* any time, and none is while the loop sleeps or starts an iteration.
C28_OneCycleAtATime ==
    /\ Cardinality(last.running) <= 1
    /\ pc \in {"loop", "sleep", "error_sleep", "stopped"} => last.running = {}
    /\ pc = "await_digest" => last.running \subseteq {"digest"}
    /\ pc = "await_report" => last.running \subseteq {"report"}
    /\ pc = "await_breaking" => last.running \subseteq {"breaking"}
    /\ pc = "await_flush" => last.running \subseteq {"flush"}

\* the digest is in its second-wave delay and the loop waits for it
C28_Witness ==
    /\ pc = "await_digest"
    /\ last.running = {"digest"}
    /\ last.digest_at = "delay"

\* ---------------------------------------------- properties of SpecSend
\* C27: a text is sent at most twice, first with Markdown and, only when
\* that attempt is rejected, once more as plain text; when the second attempt
\* fails too, the cycle ends with an error and the topics of the post stay
\* in the pending map.
C27_TwoAttemptsThenCycleError ==
    last.ran =>
        \A i \in DOMAIN last.queue :
            LET send == last.sends[i]
            IN  last.queue[i].result \in {"sent", "failed"} =>
                    /\ send.attempts \in {<<"Markdown">>, <<"Markdown", "plain">>}
                    /\ Len(send.attempts) = 2 => last.input[i][1] = "rejected"
                    /\ send.outcome = "raised" =>
                           /\ ~last.completed
                           /\ \A k \in last.queue[i].topics : HasKey(pending_news, k)

\* ---------------------------------------------- properties of SpecLive
PendingKeys == {normalize_url(u) : u \in Urls}

\* the topic has left the pending map and a post of it has been saved
PublishedTopic(k) ==
    /\ ~HasKey(pending_news, k)
    /\ \E row \in database : normalize_url(row.url) = k /\ row.category = "news"

\* C29: while the cycles keep running and every delivery and every save
\* succeeds, every topic of the pending map is in the end sent as a post,
\* saved and removed from the pending map.
C29_PendingEventuallyPublished ==
    \A k \in PendingKeys : HasKey(pending_news, k) ~> PublishedTopic(k)

\* ---------------------------------------------- properties of SpecChunk
\* C31 as stated: every chunk format_structured_digest returns is at most
\* max_length long, whatever max_length, the title and the items are.
C31_ChunksWithinLimit ==
    last.done => \A c \in DOMAIN last.chunks : Len(last.chunks[c]) <= last.input.max_length

\* the continuation header followed by any one line of the report fits
HeaderAndLineFit ==
    \A i \in DOMAIN last.lines :
        Len(ContinuationHeader(last.input.title)) + Len(last.lines[i]) <= last.input.max_length

\* C31: every chunk is at most max_length long whenever max_length has room
\* for the continuation header followed by the longest line of the report.
C31_ChunksWithinLimitWhenLinesFit ==
    (last.done /\ HeaderAndLineFit) =>
        \A c \in DOMAIN last.chunks : Len(last.chunks[c]) <= last.input.max_length

\* a report of several chunks, one of them exactly max_length long, the
\* later ones opened by the continuation header
C31_Witness ==
    /\ last.done
    /\ HeaderAndLineFit
    /\ Len(last.chunks) >= 3
    /\ \E c \in DOMAIN last.chunks : Len(last.chunks[c]) = last.input.max_length
    /\ \A c \in 2..Len(last.chunks) :
          StartsWith(last.chunks[c], ContinuationHeader(last.input.title))

\* ------------------------------------------- properties of SpecCurrency
\* C32: after save_currency_snapshot(rates, post_type, t) the table has a
\* snapshot of that post type for the day of t, also when the same rates were
\* saved before for another day or post type.
C32_SlotRecordedAfterSave ==
    last.ran => has_currency_post_for_day(database, DateOf(last.at), last.post_type)

\* ------------------------------------ properties of SpecClassify (digest)
\* C33: in publish_daily_digest an item of region world whose topic is economy
\* or society, let through by the other filters, is put into the world-politics
\* bucket and appears in the digest of that bucket.
C33_WorldEconomySocietyInWorldPolitics ==
    (/\ last.digested
     /\ last.passed
     /\ detect_region(last.input.text, last.input.category) = "world"
     /\ detect_topic(last.input.text) \in {"economy", "society"})
        => \E c \in DOMAIN channel :
              /\ channel[c].bucket_key = "politics_world"
              /\ \E i \in DOMAIN channel[c].items : channel[c].items[i] = last.input

\* ------------------------------------------------ properties of Spec
\* C34: once an item has been persisted as published (by a post or by the
\* mini-digest of diverted posts), no later cycle delivers a post one of whose
\* combined_items has the same normalized URL.
C34_NoDeliveryOfPersistedUrl ==
    [][last'.ran =>
          \A i \in DOMAIN last'.queue :
              last'.queue[i].result = "sent" =>
                  \A u \in last'.queue[i].urls :
                      ~\E row \in database : normalize_url(row.url) = u]_vars

\* C35: after any sequence of add_to_pending calls and evictions no two
\* different topics of the pending map have similarity >= 0.5, and no two
\* share a key.
C35_PendingTopicsDissimilar ==
    \A i, j \in DOMAIN pending_news :
        i # j => /\ pending_news[i].key # pending_news[j].key
                 /\ similarity(pending_news[i].news, pending_news[j].news)
                        < PENDING_SIMILARITY_PERCENT

\* two topics are pending after an eviction, one of them holding an item that
\* was merged into it by similarity: the item's own URL is not the topic's key
C35_Witness ==
    /\ Len(pending_news) >= 2
    /\ database # {}
    /\ \E i \in DOMAIN pending_news :
          \E k \in DOMAIN pending_news[i].news.combined_items :
              /\ normalize_url(pending_news[i].news.combined_items[k].url)
                     # pending_news[i].key
              /\ pending_news[i].news.combined_items[k].title # pending_news[i].news.title

\* the items of the pending topic at position e, as <<title, url>> pairs
OwnItems(e) ==
    {<<item.title, item.url>> : item \in SeqToSet(pending_news[e].news.combined_items)}

\* C36: a topic leaves the pending map only at the end of a cycle in which a
\* post holding one of the topic's own combined_items was delivered and every
\* combined item of that post was passed to save_news; a topic that was in no
\* delivered post is never evicted.
C36_EvictedOnlyWhenDelivered ==
    [][\A e \in DOMAIN pending_news :
          ~HasKey(pending_news', pending_news[e].key) =>
              /\ last'.ran
              /\ \E i \in DOMAIN last'.queue :
                    /\ last'.queue[i].result = "sent"
                    /\ OwnItems(e) \cap last'.queue[i].items # {}
                    /\ \A it \in last'.queue[i].items :
                          \E row \in database' : row.title = it[1] /\ row.url = it[2]]_vars

\* rank a goes before rank b in descending (priority_score, published_at) order
RankBefore(a, b) == a[1] > b[1] \/ (a[1] = b[1] /\ a[2] > b[2])

\* C37: one cycle delivers at most MAX_POSTS_PER_PUBLISH_CYCLE posts, attempts
\* the posts in descending (priority_score, published_at) order, and leaves
\* every matured topic that was not delivered in the pending map, unchanged.
C37_CappedOrderedRestUntouched ==
    [][last'.ran =>
          /\ Cardinality({i \in DOMAIN last'.queue : last'.queue[i].result = "sent"})
                 <= MAX_POSTS_PER_PUBLISH_CYCLE
          /\ \A i, j \in DOMAIN last'.queue :
                i < j =>
                    /\ ~RankBefore(last'.queue[j].rank, last'.queue[i].rank)
                    /\ last'.queue[j].result # "not_reached"
                           => last'.queue[i].result # "not_reached"
          /\ \A t \in DOMAIN last'.topics :
                (/\ last'.topics[t].matured
                 /\ ~\E i \in DOMAIN last'.queue :
                        /\ last'.queue[i].result = "sent"
                        /\ last'.topics[t].key \in last'.queue[i].topics)
                    => \E f \in DOMAIN pending_news' :
                          /\ pending_news'[f].key = last'.topics[t].key
                          /\ pending_news'[f].news.first_seen_at
                                 = last'.topics[t].first_seen_at
                          /\ Len(pending_news'[f].news.combined_items)
                                 = last'.topics[t].items]_vars

\* ---------------------------------------------- properties of SpecAdmit
\* C38: within one cycle no two admitted items share a normalized URL, a
\* normalized title or a non-empty content hash, so every topic that
\* group_news_by_url builds has exactly one combined item.
C38_AdmittedItemsDistinct ==
    last.ran =>
        /\ \A i, j \in DOMAIN last.filtered_news :
              i # j =>
                  LET a == last.filtered_news[i]
                      b == last.filtered_news[j]
                  IN  /\ normalize_url(a.url) # normalize_url(b.url)
                      /\ normalize_title(a.title) # normalize_title(b.title)
                      /\ generate_content_hash(a.title, a.description) # <<>>
                            => generate_content_hash(a.title, a.description)
                                   # generate_content_hash(b.title, b.description)
        /\ \A g \in DOMAIN last.grouped_news :
              Len(last.grouped_news[g].news.combined_items) = 1

\* a batch of three, one of them a twin of an earlier one, gives two topics
C38_Witness ==
    /\ last.ran
    /\ Len(last.input) = 3
    /\ Len(last.filtered_news) = 2
    /\ Len(last.grouped_news) = 2
    /\ \E i, j \in DOMAIN last.input :
          /\ i < j
          /\ last.input[i].url # last.input[j].url
          /\ normalize_url(last.input[i].url) = normalize_url(last.input[j].url)

\* C39: in a breaking-only cycle only items flagged is_breaking enter the
\* pending map, and a non-breaking item never keeps a breaking item of the
\* same batch from being admitted: the admitted items are those admitted
\* from the batch with its non-breaking items left out.
C39_OnlyBreakingAndNotBlocked ==
    (last.ran /\ last.breaking_only) =>
        /\ \A e \in DOMAIN pending_news :
              \A k \in DOMAIN pending_news[e].news.combined_items :
                  pending_news[e].news.combined_items[k].is_breaking
        /\ last.filtered_news =
              AdmitBatch(SelectSeq(last.input,
                                   LAMBDA n : is_breaking_news(n, last.threshold)),
                         AdmitStart, last.threshold, TRUE).filtered_news

\* ------------------------------------- properties of Spec (mini-digest)
\* the step of _publish_pending_breaking_digest
FlushStep == pc = "flush" /\ pc' = "loop"

\* the flush left the queue, the database and the channel as they were
FlushChangedNothing == UNCHANGED <<pending_breaking_digest, database, channel>>

\* the post is in the mini-digest this step sent, and is persisted
InMiniDigest(post) ==
    /\ \E c \in DOMAIN channel' :
          /\ c > Len(channel)
          /\ channel'[c].kind = "mini_digest"
          /\ channel'[c].key = normalize_url(post.url)
    /\ \E row \in database' : row.title = post.title /\ row.url = post.url

TopQueued ==
    Take(SortDesc(pending_breaking_digest), BREAKING_MINI_DIGEST_MAX_ITEMS)

====
